---- MODULE Spec2Model ----
(***************************************************************************)
(* Verification model of the boxigon physics playground (qrunk/boxigon).   *)
(*                                                                         *)
(* Sections:                                                               *)
(*   1. NPC health / bleeding            (src/src/npc.py)                  *)
(*   2. WeldingTool joint graph          (src/src/wield.py)                *)
(*   3. Brick weld tree and Brick.update (src/src/makersgun/brick.py)      *)
(*                                                                         *)
(* Numbers.  pygame Vector2 components and Python floats are modelled in   *)
(* exact fixed-point arithmetic: times in milliseconds, hit points in      *)
(* thousandths, lengths in 1/LU of a world unit.  Rounding of IEEE floats  *)
(* is not modelled.                                                        *)
(***************************************************************************)
EXTENDS Integers, Sequences, FiniteSets, TLC

VARIABLES
    \* ---- NPC (src/src/npc.py) ----
    hp,              \* NPC.hp, in 1/1000 hit point
    bleed_time,      \* NPC.bleed_time, in ms
    stand_enabled,   \* NPC.stand_enabled
    cut_particles,   \* NPC.cut_particles, set of particle indices
    constraints,     \* NPC.constraints, sequence of <<i, j>>
    last_hit,        \* NPC.last_hit_pos is set (TRUE) or None (FALSE)
    dropDeadCalls,   \* history: number of drop_dead() calls so far
    hits,            \* history: apply_bullet_hit calls that found a particle
    ticksAfterHit,   \* history: NPC.update calls since the latest such hit
    elapsedAfterHit, \* history: sum of their dt, in ms
    \* ---- WeldingTool (src/src/wield.py) ----
    welded,          \* WeldingTool.welded, sequence of entries <<obj, attach>>
    joints,          \* WeldingTool.joints, sequence of joint records
    weld_groups,     \* WeldingTool.weld_groups, dict in insertion order:
                     \*   sequence of [id |-> n, members |-> set of objects]
    last_weld_target,\* WeldingTool._last_weld_target, <<obj, attach>> or NoTarget
    mergeLog,        \* history: the latest group merge of the last call
    overflowLog,     \* history: the latest size rejection of the last call
    createLog,       \* history: the groups created by the last call
    \* ---- Brick weld tree (src/src/makersgun/brick.py) ----
    welded_to,       \* Brick.welded_to per brick, NoBrick for None
    welded_children, \* Brick.welded_children per brick, a sequence
    welded_offset,   \* Brick.welded_offset per brick, <<x, y>>
    bricks,          \* MakersGun.bricks, the active list (sequence of bricks)
    bpos,            \* Brick.p.pos per brick, <<x, y>>
    bprev,           \* Brick.p.prev per brick, <<x, y>>
    cursor,          \* index in bricks of the next brick the tick loop updates
    upd,             \* history: the latest call on a brick
    brickSteps,      \* history: number of Brick.update calls so far
    removals,        \* history: number of bricks removed so far
    bmass,           \* Brick.p.mass per brick
    tick_pc,         \* position in MakersGun.update: "bricks", "axe", "drag"
    tickStart,       \* history: bricks at the start of the running update
    tickLog,         \* history: bricks whose update() returned in this tick
    crashed,         \* an exception has left MakersGun.update
    drag_root,       \* MakersGun.target root while dragging, else NoBrick
    dragLog,         \* history: the latest group drag step
    picks,           \* history: number of drag pick-ups so far
    gr_start,        \* get_root: self, NoBrick when no call is running
    gr_cur,          \* get_root: cur
    gr_seen,         \* get_root: seen
    gr_pc,           \* get_root: "idle", "loop" or "done"
    drive_vel,       \* vehicle.drive_vel per vehicle, 1/1000 px/s
    root_vx,         \* vehicle.p.pos.x - p.prev.x the last drive() set, 1e-6 px
    nudge_dx,        \* what the last drive() added to each part.pos.x, 1e-8 px
    angle_inc,       \* what the last drive() added to the wheel angles, 1e-6
    driven,          \* the vehicle that receives the drive() calls
    driveElapsed,    \* history: accumulated dt of the drive() calls, ms
    rampOnly,        \* history: every drive() call so far had vx > 0
    drive_before,    \* history: drive_vel before the latest drive() call
    loop_in,         \* history: key input and dt of the latest driver tick
    rider,           \* vehicle.rider per vehicle, NoNpc for None
    rider_stand,     \* npc.stand_enabled per NPC
    mounted_bike,    \* npc.mounted_bike per NPC, NoVehicle when absent
    mounted_car,     \* npc.mounted_car per NPC, NoVehicle when absent
    seated,          \* the vehicle whose seat pose the NPC was last snapped to
    lastCall,        \* history: the latest mount/unmount call
    fl_p,            \* a particle handed to floor collision: pos, prev
    fl_env,          \* its radius and the floor's friction
    fl_log,          \* history: the particle after each floor collision
    cn_a,            \* constraint: pa.pos
    cn_b,            \* constraint: pb.pos
    cn_solver,       \* constraint: whose relaxation loop runs, "npc"/"bike"
    cn_pass,         \* constraint: passes of the loop done
    cn_log,          \* history: the distance after each pass
    jn_parts,        \* enforce_joints: object -> its particles (pos, prev)
    jn_joints,       \* self.joints of the tool
    jn_log,          \* history: per joint of the last call, parts before/after
    ps_v,            \* the vehicle rig whose rider the NPC is
    ps_rider,        \* the rider's particles: index -> (pos, prev)
    ps_stand,        \* the rider's stand_enabled
    ps_ticks,        \* NPC ticks of the rider so far
    ps_log,          \* history: what the latest rig update wrote
    rc_in,           \* raycast_aabb: the arguments of the call
    rc_out,          \* raycast_aabb: the returned tuple, <<>> before the call
    bd_p,            \* falling NPC: particle -> (y, prev y), px
    bd_hp,           \* its hp, 1/1000
    bd_bleed,        \* its bleed_time, ms
    bd_stand,        \* its stand_enabled
    bd_hits,         \* hits so far
    bd_ticks,        \* updates so far
    bd_log           \* history: the latest update, <<>> after a hit

npcVars == <<hp, bleed_time, stand_enabled, cut_particles, constraints,
             last_hit, dropDeadCalls, hits, ticksAfterHit, elapsedAfterHit>>

weldVars == <<welded, joints, weld_groups, last_weld_target, mergeLog,
              overflowLog, createLog>>

treeVars == <<welded_to, welded_children>>

rootVars == <<gr_start, gr_cur, gr_seen, gr_pc>>

physVars == <<welded_offset, bricks, bpos, bprev, cursor, upd, brickSteps,
              removals, bmass, tick_pc, tickStart, tickLog, crashed,
              drag_root, dragLog, picks>>

driveVars == <<drive_vel, root_vx, nudge_dx, angle_inc, driven, driveElapsed,
               rampOnly, drive_before, loop_in>>

mountVars == <<rider, rider_stand, mounted_bike, mounted_car, seated,
               lastCall>>

\* the state outside the NPC, welding tool and brick sections
floorVars == <<fl_p, fl_env, fl_log>>

constrVars == <<cn_a, cn_b, cn_solver, cn_pass, cn_log>>

particleVars == <<floorVars, constrVars>>

jointVars == <<jn_parts, jn_joints, jn_log>>

poseVars == <<ps_v, ps_rider, ps_stand, ps_ticks, ps_log>>

rayVars == <<rc_in, rc_out>>

bodyVars == <<bd_p, bd_hp, bd_bleed, bd_stand, bd_hits, bd_ticks, bd_log>>

sceneVars == <<jointVars, poseVars, rayVars, bodyVars>>

extVars == <<driveVars, mountVars, particleVars, sceneVars>>

coreVars == <<npcVars, weldVars, treeVars, rootVars, physVars>>

vars == <<coreVars, extVars>>

Max(a, b) == IF a >= b THEN a ELSE b

Min(a, b) == IF a <= b THEN a ELSE b

(***************************************************************************)
(* 1. NPC health / bleeding                                                *)
(***************************************************************************)

\* bounds of the NPC scenario
MaxHits == 5

MaxTicks == 30

\* dt values the driver feeds to NPC.update, in ms (0.1 s per call)
DtChoices == {100}

\* NPC.__init__: hp = 100.0
InitialHp == 100000

\* NPC.__init__: bleed_dps = 20.0 (hit points per second)
bleed_dps == 20

\* apply_bullet_hit: bleed timer of 2.5 s
BleedDuration == 2500

\* apply_bullet_hit: immediate loss of 10 hp
HitDamage == 10000

\* particle indices head, torso x4, arms, legs
ParticleIdx == 0..8

\* nearest_particle_index found nothing within max_dist
NoParticle == -1

\* results of nearest_particle_index explored: torso joint of the arms,
\* waist joint of the legs, a leg, or nothing in range
HitChoices == {2, 4, 7, NoParticle}

\* NPC.__init__: the connect(a, b) calls, in order
InitialConstraints ==
    << <<0, 1>>, <<1, 2>>, <<2, 3>>, <<3, 4>>, <<2, 5>>, <<2, 6>>,
       <<4, 7>>, <<4, 8>>, <<1, 3>>, <<2, 4>> >>

\* a filter that looks at the first endpoint only
StripConstraintsFirst(cs, idx) == SelectSeq(cs, LAMBDA c : c[1] # idx)

\* [c for c in self.constraints if idx not in (c[0], c[1])]
StripConstraints(cs, idx) ==
    SelectSeq(cs, LAMBDA c : c[1] # idx /\ c[2] # idx)

\* the bleed guard of NPC.update falls through untouched
BleedTimeAfterStuck(bt, dt) == bt

\* NPC.update: self.bleed_time -= dt
BleedTimeAfter(bt, dt) == bt - dt

\* NPC.update: self.hp -= bleed_dps * dt   (dps * ms = 1/1000 hp)
HpAfterBleed(h, dt) == h - bleed_dps * dt

NPCInit ==
    /\ hp = InitialHp
    /\ bleed_time = 0
    /\ stand_enabled = TRUE
    /\ cut_particles = {}
    /\ constraints = InitialConstraints
    /\ last_hit = FALSE
    /\ dropDeadCalls = 0
    /\ hits = 0
    /\ ticksAfterHit = 0
    /\ elapsedAfterHit = 0

\* NPC.apply_bullet_hit(pos); idx is what nearest_particle_index(pos, 40)
\* returns for the position of the hit
ApplyBulletHit(idx) ==
    /\ hits < MaxHits
    /\ IF idx = NoParticle
       THEN UNCHANGED npcVars
       ELSE /\ cut_particles' = cut_particles \cup {idx}
            /\ constraints' = StripConstraints(constraints, idx)
            /\ bleed_time' = Max(bleed_time, BleedDuration)
            /\ last_hit' = TRUE
            /\ hp' = hp - HitDamage
            /\ hits' = hits + 1
            /\ ticksAfterHit' = 0
            /\ elapsedAfterHit' = 0
            /\ UNCHANGED <<stand_enabled, dropDeadCalls>>
    /\ UNCHANGED <<weldVars, treeVars, rootVars, physVars, extVars>>

\* NPC.update(dt): the bleeding block at the end of the tick, with
\* drop_dead() applied when hp is depleted
NPCUpdate(dt) ==
    /\ ticksAfterHit < MaxTicks
    /\ ticksAfterHit' = ticksAfterHit + 1
    /\ elapsedAfterHit' = elapsedAfterHit + dt
    /\ IF bleed_time > 0
       THEN /\ bleed_time' = BleedTimeAfter(bleed_time, dt)
            /\ hp' = HpAfterBleed(hp, dt)
            /\ IF hp' <= 0
               THEN /\ stand_enabled' = FALSE
                    /\ dropDeadCalls' = dropDeadCalls + 1
               ELSE UNCHANGED <<stand_enabled, dropDeadCalls>>
       ELSE UNCHANGED <<bleed_time, hp, stand_enabled, dropDeadCalls>>
    /\ UNCHANGED <<cut_particles, constraints, last_hit, hits>>
    /\ UNCHANGED <<weldVars, treeVars, rootVars, physVars, extVars>>

NPCNext ==
    \/ \E idx \in HitChoices : ApplyBulletHit(idx)
    \/ \E dt \in DtChoices : NPCUpdate(dt)

\* PossessionManager.possess(npcs, idx) on this NPC:
\* self.possessed.stand_enabled = True
Possess ==
    /\ stand_enabled' = TRUE
    /\ UNCHANGED <<hp, bleed_time, cut_particles, constraints, last_hit,
                   dropDeadCalls, hits, ticksAfterHit, elapsedAfterHit>>
    /\ UNCHANGED <<weldVars, treeVars, rootVars, physVars, extVars>>

\* Bike.unmount() / Car.unmount() of a vehicle whose rider is this NPC:
\* self.rider.stand_enabled = True
RiderUnmount ==
    /\ stand_enabled' = TRUE
    /\ UNCHANGED <<hp, bleed_time, cut_particles, constraints, last_hit,
                   dropDeadCalls, hits, ticksAfterHit, elapsedAfterHit>>
    /\ UNCHANGED <<weldVars, treeVars, rootVars, physVars, extVars>>

\* the NPC under hits, ticks, possession and unmounts
DeathNext ==
    \/ NPCNext
    \/ Possess
    \/ RiderUnmount

(***************************************************************************)
(* 2. WeldingTool joint graph                                              *)
(*                                                                         *)
(* Objects are numbered: 0 is an NPC (an object with particles, touched    *)
(* per particle), 1..NumWeldBricks are bricks (touched as a whole).        *)
(* Positions are not part of this section: every distance test             *)
(* "dist < self.radius * 2" of weld_effect is answered by an input, the    *)
(* set of object pairs that are within that range during the call.         *)
(***************************************************************************)

NumWeldBricks == 4

\* WeldingTool.max_group_size (100 in __init__), modelled small
max_group_size == 3

WeldNpc == 0

WeldBricks == 1..NumWeldBricks

WeldObjs == {WeldNpc} \cup WeldBricks

\* attach_index None (bricks, whole objects)
NoAttach == -1

\* particle indices of the NPC the tool can touch (head and neck)
NpcAttach == {0, 1}

\* (obj, attach_index) pairs the tool can touch
WeldEntries ==
    {<<WeldNpc, i>> : i \in NpcAttach} \cup {<<b, NoAttach>> : b \in WeldBricks}

\* self._last_weld_target = None
NoTarget == <<>>

\* target_group = None
NoGroup == -1

\* for group_id, objects in self.weld_groups.items():
\*     if obj in objects: return group_id     (first match in dict order)
RECURSIVE GroupOfFrom(_, _, _)
GroupOfFrom(groups, obj, k) ==
    IF k > Len(groups) THEN NoGroup
    ELSE IF obj \in groups[k].members THEN groups[k].id
    ELSE GroupOfFrom(groups, obj, k + 1)

GroupOf(groups, obj) == GroupOfFrom(groups, obj, 1)

GroupIds(groups) == {groups[k].id : k \in 1..Len(groups)}

\* self.weld_groups[gid]
Members(groups, gid) ==
    LET k == CHOOSE k \in 1..Len(groups) : groups[k].id = gid
    IN  groups[k].members

\* self.weld_groups[gid] = members: an existing key keeps its place in the
\* dict and gets the new value, a new key is appended
SetGroup(groups, gid, members) ==
    IF gid \in GroupIds(groups)
    THEN [k \in 1..Len(groups) |->
            IF groups[k].id = gid
            THEN [id |-> gid, members |-> members] ELSE groups[k]]
    ELSE Append(groups, [id |-> gid, members |-> members])

\* del self.weld_groups[gid]
DelGroup(groups, gid) == SelectSeq(groups, LAMBDA g : g.id # gid)

\* new_group = len(self.weld_groups)
NewGroupId(groups) == Len(groups)

\* size test that lets a full group grow
HasRoomOffByOne(size) == size <= max_group_size

\* len(self.weld_groups[g]) < self.max_group_size
HasRoom(size) == size < max_group_size

\* merge test that ignores the size of the absorbed group
MergeFitsAlways(sizeA, sizeB) == TRUE

\* total_size <= self.max_group_size
MergeFits(sizeA, sizeB) == sizeA + sizeB <= max_group_size

\* merge that forgets to re-tag the joints
RelabelJointsNone(js, from, to) == js

\* for j in self.joints: if j['group'] == other_group: j['group'] = target_group
RelabelJoints(js, from, to) ==
    [k \in 1..Len(js) |->
        IF js[k].group = from THEN [js[k] EXCEPT !.group = to] ELSE js[k]]

\* (j['a'] is x and j['b'] is y) or (j['a'] is y and j['b'] is x), any j
JointExists(js, x, y) ==
    \E k \in 1..Len(js) :
        \/ js[k].a = x /\ js[k].b = y
        \/ js[k].a = y /\ js[k].b = x

\* the dist < self.radius * 2 test between two attach points; near is the
\* input set of object pairs in range, an attach point is in range of itself
InRange(near, e1, e2) == e1 = e2 \/ <<e1[1], e2[1]>> \in near

NoLog == <<>>

\* weld_effect, first branch: the target has no group and there is a last
\* weld target.  st = [groups, joints, mlog, olog]
WeldToLast(st, last, tgt, near) ==
    LET lastObj    == last[1]
        obj        == tgt[1]
        last_group == GroupOf(st.groups, lastObj)
    IN
    IF ~InRange(near, last, tgt) THEN st
    ELSE
      LET full == last_group # NoGroup
                    /\ ~HasRoom(Cardinality(Members(st.groups, last_group)))
          groups1 ==
            IF last_group # NoGroup
            THEN IF full THEN st.groups
                 ELSE SetGroup(st.groups, last_group,
                               Members(st.groups, last_group) \cup {obj})
            ELSE SetGroup(st.groups, NewGroupId(st.groups), {lastObj, obj})
          target_group ==
            IF last_group # NoGroup
            THEN IF full THEN NoGroup ELSE last_group
            ELSE NewGroupId(st.groups)
          joints1 ==
            IF JointExists(st.joints, lastObj, obj) THEN st.joints
            ELSE Append(st.joints,
                        [a |-> lastObj, b |-> obj, a_attach |-> last[2],
                         b_attach |-> tgt[2], group |-> target_group])
      IN [groups |-> groups1, joints |-> joints1, mlog |-> st.mlog,
          olog |-> IF full
                   THEN [rejected |-> {obj}, into |-> last_group,
                         groupsBefore |-> st.groups, groupsAfter |-> groups1,
                         jointsAfter |-> joints1]
                   ELSE st.olog,
          clog |-> IF last_group = NoGroup
                   THEN Append(st.clog, [id |-> target_group,
                                         groupsBefore |-> st.groups,
                                         groupsAfter |-> groups1])
                   ELSE st.clog]

\* weld_effect, second branch, one iteration of
\*     for other_target, _, other_attach in self.welded
WeldOther(st, tgt, target_group, other, near) ==
    LET obj         == tgt[1]
        otherObj    == other[1]
        other_group == GroupOf(st.groups, otherObj)
    IN
    IF otherObj = obj THEN st
    ELSE IF other_group = target_group THEN st
    ELSE IF ~InRange(near, other, tgt) THEN st
    ELSE
      LET tm     == Members(st.groups, target_group)
          merge  == other_group # NoGroup
                      /\ MergeFits(Cardinality(tm),
                                   Cardinality(Members(st.groups, other_group)))
          add    == other_group = NoGroup /\ HasRoom(Cardinality(tm))
          groups1 ==
            IF merge
            THEN DelGroup(SetGroup(st.groups, target_group,
                              tm \cup Members(st.groups, other_group)),
                          other_group)
            ELSE IF add
            THEN SetGroup(st.groups, target_group, tm \cup {otherObj})
            ELSE st.groups
          jointsM ==
            IF merge THEN RelabelJoints(st.joints, other_group, target_group)
            ELSE st.joints
          joints1 ==
            IF JointExists(jointsM, obj, otherObj) THEN jointsM
            ELSE Append(jointsM,
                        [a |-> obj, b |-> otherObj, a_attach |-> tgt[2],
                         b_attach |-> other[2], group |-> target_group])
      IN [groups |-> groups1, joints |-> joints1,
          mlog |-> IF merge
                   THEN [survivor |-> target_group, absorbed |-> other_group,
                         groupsBefore |-> st.groups, jointsBefore |-> st.joints,
                         groupsAfter |-> groups1, jointsAfter |-> jointsM]
                   ELSE st.mlog,
          olog |-> IF ~merge /\ ~add
                   THEN [rejected |-> IF other_group = NoGroup THEN {otherObj}
                                      ELSE Members(st.groups, other_group),
                         into |-> target_group,
                         groupsBefore |-> st.groups, groupsAfter |-> groups1,
                         jointsAfter |-> joints1]
                   ELSE st.olog,
          clog |-> st.clog]

RECURSIVE WeldOthersFrom(_, _, _, _, _, _)
WeldOthersFrom(st, tgt, target_group, ws, near, k) ==
    IF k > Len(ws) THEN st
    ELSE WeldOthersFrom(WeldOther(st, tgt, target_group, ws[k], near),
                        tgt, target_group, ws, near, k + 1)

\* WeldingTool.weld_effect(target, attach_index=...): the group and joint
\* bookkeeping (lines 172-283).  The push of the target away from the tool
\* (lines 109-150) only moves positions.
\* st = [groups, joints, last, mlog, olog]; ws is self.welded
weld_effect(st, ws, tgt, near) ==
    LET target_group == GroupOf(st.groups, tgt[1])
        s0 == [groups |-> st.groups, joints |-> st.joints,
               mlog |-> st.mlog, olog |-> st.olog, clog |-> st.clog]
        s1 == IF target_group = NoGroup /\ st.last # NoTarget
              THEN WeldToLast(s0, st.last, tgt, near)
              ELSE IF target_group # NoGroup
              THEN WeldOthersFrom(s0, tgt, target_group, ws, near, 1)
              ELSE s0
    IN [groups |-> s1.groups, joints |-> s1.joints, last |-> tgt,
        mlog |-> s1.mlog, olog |-> s1.olog, clog |-> s1.clog]

ToolState ==
    [groups |-> weld_groups, joints |-> joints, last |-> last_weld_target,
     mlog |-> NoLog, olog |-> NoLog, clog |-> <<>>]

SetToolState(st) ==
    /\ weld_groups' = st.groups
    /\ joints' = st.joints
    /\ last_weld_target' = st.last
    /\ mergeLog' = st.mlog
    /\ overflowLog' = st.olog
    /\ createLog' = st.clog

\* WeldingTool.__init__
WeldInit ==
    /\ welded = <<>>
    /\ joints = <<>>
    /\ weld_groups = <<>>
    /\ last_weld_target = NoTarget
    /\ mergeLog = NoLog
    /\ overflowLog = NoLog
    /\ createLog = <<>>

\* the entries of T that update() appends to touched_this_frame, in the
\* order of its loops: NPC particles by index, then bricks in list order
RECURSIVE TouchOrder(_)
TouchOrder(T) ==
    IF T = {} THEN <<>>
    ELSE LET first == CHOOSE e \in T :
                    \A f \in T : e[1] < f[1] \/ (e[1] = f[1] /\ e[2] <= f[2])
         IN  <<first>> \o TouchOrder(T \ {first})

\* the double loop of update() over touched_this_frame: for i < j,
\* weld_effect(obj_i); _last_weld_target = obj_i; weld_effect(obj_j)
RECURSIVE WeldPairsFrom(_, _, _, _, _, _)
WeldPairsFrom(st, ws, touched, near, i, j) ==
    IF i > Len(touched) THEN st
    ELSE IF j > Len(touched)
    THEN WeldPairsFrom(st, ws, touched, near, i + 1, i + 2)
    ELSE LET s1 == weld_effect(st, ws, touched[i], near)
             s2 == weld_effect(s1, ws, touched[j], near)
         IN  \* weld_effect leaves its target in _last_weld_target
             IF s2.last = touched[j]
             THEN WeldPairsFrom(s2, ws, touched, near, i, j + 1)
             ELSE s2

\* WeldingTool.update(npcs, bricks) with the tool held: in_radius is the set
\* of entries within self.radius of the tool, near the object pairs within
\* 2 * radius of each other during the frame.  enforce_joints() at the end
\* only moves positions.
ToolUpdate(in_radius, near) ==
    LET fresh   == {e \in in_radius : \A k \in 1..Len(welded) : welded[k] # e}
        touched == TouchOrder(fresh)
        ws      == welded \o touched
    IN
    /\ welded' = ws
    /\ IF Len(touched) > 1
       THEN SetToolState(WeldPairsFrom(ToolState, ws, touched, near, 1, 2))
       ELSE IF Len(touched) = 1
       THEN SetToolState(weld_effect(ToolState, ws, touched[1], near))
       ELSE /\ mergeLog' = NoLog
            /\ overflowLog' = NoLog
            /\ createLog' = <<>>
            /\ UNCHANGED <<weld_groups, joints, last_weld_target>>
    /\ UNCHANGED <<npcVars, treeVars, rootVars, physVars, extVars>>

\* WeldingTool.update(npcs, bricks) with the tool not held, or held with
\* nothing new in its radius
ToolUpdateIdle ==
    /\ mergeLog' = NoLog
    /\ overflowLog' = NoLog
    /\ createLog' = <<>>
    /\ UNCHANGED <<welded, weld_groups, joints, last_weld_target>>
    /\ UNCHANGED <<npcVars, treeVars, rootVars, physVars, extVars>>

\* symmetric in-range relations: the objects of a cluster are pairwise in
\* range of each other
ClusterNear(C) == C \X C

\* entries the tool has not touched yet (update() skips those in welded)
FreshEntries ==
    {e \in WeldEntries : \A k \in 1..Len(welded) : welded[k] # e}

\* the objects a distance test of the next call can involve
KnownObjs ==
    {welded[k][1] : k \in 1..Len(welded)}
        \cup (IF last_weld_target = NoTarget THEN {}
              ELSE {last_weld_target[1]})

WeldNext ==
    \/ \E T \in (SUBSET FreshEntries) \ {{}} :
         \E C \in SUBSET (KnownObjs \cup {e[1] : e \in T}) :
            ToolUpdate(T, ClusterNear(C))
    \/ ToolUpdateIdle

(***************************************************************************)
(* 3. Brick weld tree                                                      *)
(***************************************************************************)

NumBricks == 3

Bricks == 1..NumBricks

\* welded_to = None
NoBrick == 0

\* get_root without the visited-set test
SeenHitNever(cur, seen) == FALSE

\* get_root: id(cur) in seen
SeenHit(cur, seen) == cur \in seen

\* Brick.get_root, the loop
\*     while cur.welded_to is not None:
\*         if id(cur) in seen: break
\*         seen.add(id(cur)); cur = cur.welded_to
RECURSIVE GetRootFrom(_, _, _)
GetRootFrom(wto, cur, seen) ==
    IF wto[cur] = NoBrick THEN cur
    ELSE IF SeenHit(cur, seen) THEN cur
    ELSE GetRootFrom(wto, wto[cur], seen \cup {cur})

\* Brick.get_root()
get_root(wto, b) == GetRootFrom(wto, b, {})

\* Brick.__init__: no welds
TreeInit ==
    /\ welded_to = [b \in Bricks |-> NoBrick]
    /\ welded_children = [b \in Bricks |-> <<>>]

RootIdle ==
    /\ gr_start = NoBrick
    /\ gr_cur = NoBrick
    /\ gr_seen = {}
    /\ gr_pc = "idle"

\* any welded_to structure, cycles and self-welds included
RootInit ==
    /\ welded_to \in [Bricks -> Bricks \cup {NoBrick}]
    /\ welded_children = [b \in Bricks |-> <<>>]
    /\ RootIdle

\* get_root is called on brick b: cur = self; seen = set()
GetRootCall(b) ==
    /\ gr_pc = "idle"
    /\ gr_start' = b
    /\ gr_cur' = b
    /\ gr_seen' = {}
    /\ gr_pc' = "loop"
    /\ UNCHANGED <<treeVars, npcVars, weldVars, physVars, extVars>>

\* one evaluation of the while condition and, if it holds, of the body
GetRootStep ==
    /\ gr_pc = "loop"
    /\ IF welded_to[gr_cur] = NoBrick \/ SeenHit(gr_cur, gr_seen)
       THEN /\ gr_pc' = "done"
            /\ UNCHANGED <<gr_cur, gr_seen>>
       ELSE /\ gr_seen' = gr_seen \cup {gr_cur}
            /\ gr_cur' = welded_to[gr_cur]
            /\ gr_pc' = "loop"
    /\ UNCHANGED <<gr_start, treeVars, npcVars, weldVars, physVars, extVars>>

RootNext ==
    \/ \E b \in Bricks : GetRootCall(b)
    \/ GetRootStep

(***************************************************************************)
(* 4. Brick.update                                                         *)
(*                                                                         *)
(* Lengths are integers in 1/LU world unit, vectors are <<x, y>>.  Every   *)
(* comparison of Brick.update is evaluated exactly (on squares); the two   *)
(* quotients it computes (separation push, impulse) are rounded to the     *)
(* nearest 1/LU.  All bricks are Brick(pos, size=40) of mass 1.0, the      *)
(* floor is the Baseplate, and dt is the driver's cap of 1/30 s.           *)
(***************************************************************************)

\* resolution: sub-units per world unit
LU == 4

MaxBrickSteps == 7

MaxRemovals == 1
MaxPicks == 1
AxeRadius == 36
DragMoves == {<<0, 0>>, <<20, -60>>}

\* spawn_brick: Brick(world_pos, size=40)
BrickSize == 40

\* Brick.__init__: mass=1.0
BrickMass == 1

\* Brick.update: gravity = Vector2(0, 900)
Gravity == 900

\* app.py: dt = min(dt, 1.0 / 30.0)
TicksPerSecond == 30

\* Baseplate friction (baseplate.py __init__ default), in percent
FloorFrictionPct == 12

\* Brick.update: restitution = 0.3, as (1 + restitution) * 10
RestitutionX10 == 13

\* Brick.update: rel_speed < 120
SnapSpeed == 120

\* Brick.update: vertical_indicator < -0.7, as the square in percent
SnapVerticalSqPct == 49

\* Brick.update: horiz_tol = (self.size + other.size) * 0.35, in percent
SnapHorizPct == 35

Size(b) == BrickSize * LU

Mass(b) == bmass[b]

\* floor_y.get_floor_y() of the scene
FloorY == 120 * LU

\* acc * dt * dt for acc = gravity
GravStep == (Gravity * LU) \div (TicksPerSecond * TicksPerSecond)

VAdd(u, v) == <<u[1] + v[1], u[2] + v[2]>>

VSub(u, v) == <<u[1] - v[1], u[2] - v[2]>>

Dot(u, v) == u[1] * v[1] + u[2] * v[2]

Abs(n) == IF n < 0 THEN -n ELSE n

\* a / b for b > 0, rounded to the nearest integer
RDiv(a, b) == (2 * a + b) \div (2 * b)

\* floor of the square root, by bisection on lo..hi
RECURSIVE ISqrtIn(_, _, _)
ISqrtIn(n, lo, hi) ==
    IF lo >= hi THEN lo
    ELSE LET mid == (lo + hi + 1) \div 2
         IN  IF mid * mid <= n THEN ISqrtIn(n, mid, hi)
             ELSE ISqrtIn(n, lo, mid - 1)

\* Vector2.length() of a vector whose squared length is n
ISqrt(n) == ISqrtIn(n, 0, 4096)

InList(list, b) == \E k \in 1..Len(list) : list[k] = b

\* list.remove(x): drops the first occurrence (the ValueError of a missing
\* x is swallowed by the callers)
RemoveFirst(list, x) ==
    IF ~InList(list, x) THEN list
    ELSE LET k == CHOOSE i \in 1..Len(list) :
                    list[i] = x /\ \A j \in 1..(i - 1) : list[j] # x
         IN  SubSeq(list, 1, k - 1) \o SubSeq(list, k + 1, Len(list))

\* remove_weld that forgets to clear welded_to
remove_weld_keeps_parent(S, b) ==
    IF S.wto[b] # NoBrick
    THEN [S EXCEPT !.wch[S.wto[b]] = RemoveFirst(@, b)]
    ELSE S

\* Brick.remove_weld()
remove_weld(S, b) ==
    IF S.wto[b] # NoBrick
    THEN [S EXCEPT !.wch[S.wto[b]] = RemoveFirst(@, b), !.wto[b] = NoBrick]
    ELSE S

\* add_weld that leaves parent.welded_children alone
add_weld_forgets_child(S, b, parent) ==
    LET S1 == IF S.wto[b] # NoBrick /\ S.wto[b] # parent
              THEN [S EXCEPT !.wch[S.wto[b]] = RemoveFirst(@, b)]
              ELSE S
    IN  [S1 EXCEPT !.wto[b] = parent,
                   !.woff[b] = VSub(S1.pos[b], S1.pos[parent])]

\* Brick.add_weld(parent), offset=None
add_weld(S, b, parent) ==
    LET S1 == IF S.wto[b] # NoBrick /\ S.wto[b] # parent
              THEN [S EXCEPT !.wch[S.wto[b]] = RemoveFirst(@, b)]
              ELSE S
        S2 == [S1 EXCEPT !.wto[b] = parent,
                         !.woff[b] = VSub(S1.pos[b], S1.pos[parent])]
    IN  IF InList(S2.wch[parent], b) THEN S2
        ELSE [S2 EXCEPT !.wch[parent] = Append(@, b)]

\* Brick.update lines 81-92: follow the parent, or un-weld when the parent
\* is no longer in other_bricks
FollowParent(S, b, list) ==
    IF S.wto[b] = NoBrick THEN S
    ELSE IF ~InList(list, S.wto[b]) THEN remove_weld(S, b)
    ELSE LET parent     == S.wto[b]
             newpos     == VAdd(S.pos[parent], S.woff[b])
             parent_vel == VSub(S.pos[parent], S.prev[parent])
         IN  [S EXCEPT !.pos[b] = newpos, !.prev[b] = VSub(newpos, parent_vel)]

\* Brick.update lines 94-96: apply_force(gravity * mass); self.p.update(dt)
Integrate(S, b) ==
    LET vel == VSub(S.pos[b], S.prev[b])
        acc == IF Mass(b) > 0 THEN <<0, GravStep>> ELSE <<0, 0>>
    IN  [S EXCEPT !.prev[b] = S.pos[b],
                  !.pos[b] = VAdd(VAdd(S.pos[b], vel), acc)]

\* Brick.update lines 98-113: floor clamp with friction
FloorClamp(S, b) ==
    LET limit == FloorY - Size(b) \div 2
    IN  IF S.pos[b][2] > limit
        THEN LET vx == S.pos[b][1] - S.prev[b][1]
             IN  [S EXCEPT !.pos[b] = <<S.pos[b][1], limit>>,
                           !.prev[b] = <<S.pos[b][1]
                                            - RDiv(vx * FloorFrictionPct, 100),
                                         limit>>]
        ELSE S

\* a group test that never reports a common root
SameRootNever(wto, b, o) == FALSE

\* "self.get_root() is other.get_root()": skip collisions inside a group
SameRoot(wto, b, o) == get_root(wto, b) = get_root(wto, o)

\* the snap test of lines 156-160 on diff = self.pos - other.pos (before the
\* push), its squared length d2 and rel_vel
SnapTest(b, o, diff, d2, rel) ==
    /\ diff[2] < 0
    /\ 100 * diff[2] * diff[2] > SnapVerticalSqPct * d2
    /\ Dot(rel, rel) < (SnapSpeed * LU) * (SnapSpeed * LU)
    /\ 100 * Abs(diff[1]) < SnapHorizPct * (Size(b) + Size(o))

\* Brick.update lines 117-170: the body of "for other in other_bricks"
CollideWith(S, b, o) ==
    IF o = b THEN S
    ELSE IF SameRoot(S.wto, b, o) THEN S
    ELSE
      LET diff     == VSub(S.pos[b], S.pos[o])
          d2       == Dot(diff, diff)
          min_dist == (Size(b) + Size(o)) \div 2
      IN
      IF ~(d2 < min_dist * min_dist /\ d2 > 0) THEN S
      ELSE IF Mass(b) + Mass(o) = 0
      THEN \* ZeroDivisionError: other.p.mass / total_mass
           [S EXCEPT !.raised = TRUE]
      ELSE
        LET dist       == ISqrt(d2)
            overlap    == min_dist - dist
            total_mass == Mass(b) + Mass(o)
            push == <<RDiv(diff[1] * overlap * Mass(o), dist * total_mass),
                      RDiv(diff[2] * overlap * Mass(o), dist * total_mass)>>
            pos1       == VAdd(S.pos[b], push)
            self_vel   == VSub(pos1, S.prev[b])
            other_vel  == VSub(S.pos[o], S.prev[o])
            rel        == VSub(self_vel, other_vel)
            along      == Dot(rel, diff)
            k          == -RestitutionX10 * along
            den        == 10 * d2 * total_mass
            impSelf    == <<RDiv(k * diff[1] * Mass(o), den),
                            RDiv(k * diff[2] * Mass(o), den)>>
            impOther   == <<RDiv(k * diff[1] * Mass(b), den),
                            RDiv(k * diff[2] * Mass(b), den)>>
            S1 == [S EXCEPT !.pos[b] = pos1]
            S2 == IF along < 0
                  THEN [S1 EXCEPT
                          !.prev[b] = VSub(pos1, VAdd(self_vel, impSelf)),
                          !.prev[o] = VSub(S.pos[o], VSub(other_vel, impOther))]
                  ELSE S1
        IN
        IF along < 0 /\ (Mass(b) = 0 \/ Mass(o) = 0)
        THEN \* ZeroDivisionError: 1 / self.p.mass + 1 / other.p.mass
             [S1 EXCEPT !.raised = TRUE]
        ELSE
        LET
            snap == SnapTest(b, o, diff, d2, rel)
            S3 == IF snap
                  THEN LET W == add_weld(S2, b, o)
                           parent_vel == VSub(W.pos[o], W.prev[o])
                       IN  [W EXCEPT !.prev[b] = VSub(W.pos[b], parent_vel)]
                  ELSE S2
            relPost == VSub(VSub(S2.pos[b], S2.prev[b]),
                            VSub(S2.pos[o], S2.prev[o]))
            slow(v) == Dot(v, v) < (SnapSpeed * LU) * (SnapSpeed * LU)
        IN [S3 EXCEPT !.contacts = Append(@, [other    |-> o,
                                              snapped  |-> snap,
                                              slowPre  |-> slow(rel),
                                              slowPost |-> slow(relPost)])]

\* history of one iteration of the collision loop: what held before it
\* (the two bricks' roots, their overlap, the snap conditions with the
\* relative velocity taken before and after the impulse) and what it changed
StepRecord(S, T, b, o) ==
    LET diff     == VSub(S.pos[b], S.pos[o])
        d2       == Dot(diff, diff)
        min_dist == (Size(b) + Size(o)) \div 2
        contact  == Len(T.contacts) > Len(S.contacts)
        last     == T.contacts[Len(T.contacts)]
    IN  [other    |-> o,
         sameRoot |-> get_root(S.wto, b) = get_root(S.wto, o),
         overlap  |-> d2 < min_dist * min_dist /\ d2 > 0,
         vertical |-> diff[2] < 0
                        /\ 100 * diff[2] * diff[2] > SnapVerticalSqPct * d2,
         horiz    |-> 100 * Abs(diff[1]) < SnapHorizPct * (Size(b) + Size(o)),
         contact  |-> contact,
         slowPre  |-> contact /\ last.slowPre,
         slowPost |-> contact /\ last.slowPost,
         moved    |-> \/ T.pos[b] # S.pos[b] \/ T.prev[b] # S.prev[b]
                      \/ T.pos[o] # S.pos[o] \/ T.prev[o] # S.prev[o],
         rewelded |-> T.wto # S.wto \/ T.wch # S.wch,
         snapped  |-> contact /\ last.snapped]

RECURSIVE CollideFrom(_, _, _, _)
CollideFrom(S, b, list, k) ==
    IF k > Len(list) \/ S.raised THEN S
    ELSE LET o == list[k]
             T == CollideWith(S, b, o)
             U == IF o = b THEN T
                  ELSE [T EXCEPT !.steps = Append(@, StepRecord(S, T, b, o))]
         IN  CollideFrom(U, b, list, k + 1)

\* Brick.update(dt, floor_y=floor, other_bricks=list) on brick b
BrickUpdateOp(S, b, list) ==
    LET S1 == FollowParent(S, b, list)
        S2 == Integrate(S1, b)
        S3 == FloorClamp(S2, b)
    IN  CollideFrom([S3 EXCEPT !.contacts = <<>>, !.steps = <<>>,
                               !.raised = FALSE], b, list, 1)

BrickState ==
    [pos |-> bpos, prev |-> bprev, wto |-> welded_to, woff |-> welded_offset,
     wch |-> welded_children, contacts |-> <<>>, steps |-> <<>>,
     raised |-> FALSE]

NoCall == <<>>

\* start positions (world units) and velocities (units per tick) of the
\* scene: brick 1 rests on the floor at (100, 100); brick 2 hangs above it,
\* or above the gap between bricks 1 and 3, or overlaps brick 3 from below,
\* or comes down on brick 1 from far above;
\* brick 3 rests beside brick 1 or hangs higher up; further bricks rest on
\* the floor to the right
StartPos(b) ==
    IF b = 1 THEN {<<100, 100>>}
    ELSE IF b = 2 THEN {<<100, 60>>, <<120, 64>>, <<100, 49>>, <<100, -70>>}
    ELSE IF b = 3 THEN {<<140, 100>>, <<100, 20>>}
    ELSE {<<140 + 60 * (b - 3), 100>>}

\* brick 2 is dropped, thrown, flung upwards or shot downwards at more
\* than the snap speed; brick 3 is at rest or flung upwards
StartVel(b) ==
    IF b = 2 THEN {<<0, 0>>, <<0, 2>>, <<3, 1>>, <<0, -60>>, <<0, 130>>}
    ELSE IF b = 3 THEN {<<0, 0>>, <<0, -60>>}
    ELSE {<<0, 0>>}

Scale(v) == <<v[1] * LU, v[2] * LU>>

\* MakersGun.update outside a running update call, nothing dragged
TickIdle ==
    /\ cursor = 1
    /\ upd = NoCall
    /\ brickSteps = 0
    /\ removals = 0
    /\ tick_pc = "bricks"
    /\ tickLog = <<>>
    /\ crashed = FALSE
    /\ drag_root = NoBrick
    /\ dragLog = NoCall
    /\ picks = 0

\* the bricks as spawned (Brick.__init__ sets prev = pos; a thrown brick
\* has prev = pos - velocity), none welded
Spawned ==
    /\ TreeInit
    /\ welded_offset = [b \in Bricks |-> <<0, 0>>]
    /\ bricks = [k \in 1..NumBricks |-> k]
    /\ tickStart = bricks
    /\ bpos \in [Bricks -> {Scale(p) : p \in UNION {StartPos(b) : b \in Bricks}}]
    /\ \A b \in Bricks : bpos[b] \in {Scale(p) : p \in StartPos(b)}
    /\ \E vel \in [Bricks -> UNION {StartVel(b) : b \in Bricks}] :
          /\ \A b \in Bricks : vel[b] \in StartVel(b)
          /\ bprev = [b \in Bricks |-> VSub(bpos[b], Scale(vel[b]))]
    /\ TickIdle

\* bricks made by MakersGun.spawn_brick: Brick(pos, size=40), mass 1.0
PhysInit ==
    /\ Spawned
    /\ bmass = [b \in Bricks |-> BrickMass]

\* as PhysInit, with bricks whose Particle was given mass 0
FaultInit ==
    /\ Spawned
    /\ bmass \in [Bricks -> {0, BrickMass}]
    /\ \E b \in Bricks : bmass[b] = 0

\* bricks spawned in a row on the floor, at rest
RowInit ==
    /\ TreeInit
    /\ welded_offset = [b \in Bricks |-> <<0, 0>>]
    /\ bricks = [k \in 1..NumBricks |-> k]
    /\ tickStart = bricks
    /\ bpos = [b \in Bricks |-> Scale(<<60 * b, 100>>)]
    /\ bprev = bpos
    /\ bmass = [b \in Bricks |-> BrickMass]
    /\ TickIdle

PhysIdle ==
    /\ welded_offset = [b \in Bricks |-> <<0, 0>>]
    /\ bricks = <<>>
    /\ tickStart = <<>>
    /\ bpos = [b \in Bricks |-> <<0, 0>>]
    /\ bprev = [b \in Bricks |-> <<0, 0>>]
    /\ bmass = [b \in Bricks |-> BrickMass]
    /\ TickIdle

\* the next iteration of "for b in self.bricks: b.update(dt, floor_y=floor,
\* other_bricks=self.bricks)" of MakersGun.update.  The loop has no
\* try/except, and neither has the caller of MakersGun.update: an exception
\* raised by b.update leaves the loop and the update call.
BrickUpdate ==
    /\ ~crashed
    /\ tick_pc = "bricks"
    /\ brickSteps < MaxBrickSteps
    /\ cursor <= Len(bricks)
    /\ \E S \in {BrickUpdateOp(BrickState, bricks[cursor], bricks)} :
       LET b == bricks[cursor]
           last == cursor >= Len(bricks)
       IN  /\ bpos' = S.pos
           /\ bprev' = S.prev
           /\ welded_to' = S.wto
           /\ welded_offset' = S.woff
           /\ welded_children' = S.wch
           /\ upd' = [brick    |-> b,
                       parent   |-> IF InList(bricks, welded_to[b])
                                    THEN welded_to[b] ELSE NoBrick,
                       stale    |-> IF InList(bricks, welded_to[b])
                                    THEN NoBrick ELSE welded_to[b],
                       offset   |-> welded_offset[b],
                       contacts |-> S.contacts,
                       steps    |-> S.steps]
           /\ crashed' = S.raised
           /\ tickLog' = IF S.raised THEN tickLog ELSE Append(tickLog, b)
           /\ cursor' = IF S.raised THEN cursor
                        ELSE IF last THEN 1 ELSE cursor + 1
           /\ tick_pc' = IF ~S.raised /\ last THEN "axe" ELSE tick_pc
    /\ brickSteps' = brickSteps + 1
    /\ dragLog' = NoCall
    /\ UNCHANGED <<bricks, removals, bmass, tickStart, drag_root, picks>>
    /\ UNCHANGED <<npcVars, weldVars, rootVars, extVars>>

\* Axe.update: the bricks whose centre is within the axe's radius of pos
to_remove(pos) ==
    {b \in Bricks : /\ InList(bricks, b)
                    /\ LET diff == VSub(bpos[b], pos)
                       IN  Dot(diff, diff) < (AxeRadius * LU) * (AxeRadius * LU)}

RECURSIVE RemoveAll(_, _)
RemoveAll(list, R) ==
    IF list = <<>> THEN <<>>
    ELSE IF Head(list) \in R THEN RemoveAll(Tail(list), R)
    ELSE <<Head(list)>> \o RemoveAll(Tail(list), R)

\* the axe block of MakersGun.update, after the brick loop of the same
\* call: Axe.update collects to_remove over a copy of the list and then
\* calls bricks.remove(b) for each.  at is the brick the axe is held over,
\* NoBrick when there is no axe or it touches nothing.  A removed brick
\* keeps its welded_to and welded_children.
AxeUpdate(at) ==
    /\ ~crashed
    /\ tick_pc = "axe"
    /\ at # NoBrick => InList(bricks, at)
    /\ LET R == IF at = NoBrick THEN {} ELSE to_remove(bpos[at])
       IN  /\ removals + Cardinality(R) <= MaxRemovals
           /\ bricks' = RemoveAll(bricks, R)
           /\ removals' = removals + Cardinality(R)
    /\ tick_pc' = "drag"
    /\ upd' = NoCall
    /\ dragLog' = NoCall
    /\ UNCHANGED <<treeVars, welded_offset, bpos, bprev, cursor, brickSteps,
                   bmass, tickStart, tickLog, crashed, drag_root, picks>>
    /\ UNCHANGED <<npcVars, weldVars, rootVars, extVars>>

\* old_vel * 0.2
DragDamp(v) == <<RDiv(v[1] * 2, 10), RDiv(v[2] * 2, 10)>>

\* "for child in parent.welded_children" of the group drag, from index k
RECURSIVE DragChildren(_, _, _, _)
DragChildren(D, parent, k, root_vel) ==
    IF k > Len(welded_children[parent]) THEN D
    ELSE LET child == welded_children[parent][k]
             cpos  == VAdd(D.pos[parent], welded_offset[child])
         IN  DragChildren([D EXCEPT !.pos[child] = cpos,
                                    !.prev[child] = VSub(cpos, root_vel),
                                    !.visited = Append(@, child),
                                    !.queue = Append(@, child)],
                          parent, k + 1, root_vel)

\* "while queue: parent = queue.pop(0) ..." of the group drag.  The loop
\* has no seen set: a traversal that visits more bricks than exist is in a
\* cycle and never ends, recorded as looping.
RECURSIVE DragQueue(_, _)
DragQueue(D, root_vel) ==
    IF D.queue = <<>> THEN D
    ELSE IF Len(D.visited) > NumBricks THEN [D EXCEPT !.looping = TRUE]
    ELSE LET parent == Head(D.queue)
         IN  DragQueue(DragChildren([D EXCEPT !.queue = Tail(@)],
                                    parent, 1, root_vel), root_vel)

\* mutant: only the root is moved
DragGroupRootOnly(root, desired) ==
    LET old_vel == VSub(bpos[root], bprev[root])
    IN  [pos     |-> [bpos EXCEPT ![root] = desired],
         prev    |-> [bprev EXCEPT ![root] = VSub(desired, DragDamp(old_vel))],
         queue   |-> <<>>,
         visited |-> <<>>,
         looping |-> FALSE]

\* the 'brick_group' branch of the drag step: the root goes to desired and
\* keeps a fifth of its velocity, the descendants follow breadth-first
DragGroup(root, desired) ==
    LET old_vel  == VSub(bpos[root], bprev[root])
        rpos     == desired
        rprev    == VSub(rpos, DragDamp(old_vel))
        root_vel == VSub(rpos, rprev)
    IN  DragQueue([pos     |-> [bpos EXCEPT ![root] = rpos],
                   prev    |-> [bprev EXCEPT ![root] = rprev],
                   queue   |-> <<root>>,
                   visited |-> <<>>,
                   looping |-> FALSE], root_vel)

\* the drag step that ends MakersGun.update: "if self.dragging and
\* self.target is not None".  move is the mouse's displacement of desired
\* from the root's position.
DragStep(move) ==
    /\ ~crashed
    /\ tick_pc = "drag"
    /\ IF drag_root = NoBrick
       THEN /\ move = <<0, 0>>
            /\ dragLog' = NoCall
            /\ UNCHANGED <<bpos, bprev>>
       ELSE LET D == DragGroup(drag_root, VAdd(bpos[drag_root], Scale(move)))
            IN  /\ bpos' = D.pos
                /\ bprev' = D.prev
                /\ dragLog' = [root |-> drag_root, visited |-> D.visited,
                               looping |-> D.looping]
    /\ tick_pc' = "bricks"
    /\ tickStart' = bricks
    /\ tickLog' = <<>>
    /\ upd' = NoCall
    /\ UNCHANGED <<treeVars, welded_offset, bricks, cursor, brickSteps,
                   removals, bmass, crashed, drag_root, picks>>
    /\ UNCHANGED <<npcVars, weldVars, rootVars, extVars>>

\* MakersGun.handle_event, MOUSEBUTTONDOWN on brick b between two updates:
\* self.target = ('brick_group', (brick.get_root(), brick))
DragPick(b) ==
    /\ ~crashed
    /\ tick_pc = "bricks" /\ cursor = 1
    /\ drag_root = NoBrick
    /\ picks < MaxPicks
    /\ InList(bricks, b)
    /\ drag_root' = get_root(welded_to, b)
    /\ picks' = picks + 1
    /\ UNCHANGED <<treeVars, welded_offset, bricks, bpos, bprev, cursor, upd,
                   brickSteps, removals, bmass, tick_pc, tickStart, tickLog,
                   crashed, dragLog>>
    /\ UNCHANGED <<npcVars, weldVars, rootVars, extVars>>

\* MakersGun.handle_event, MOUSEBUTTONUP while dragging: the target is a
\* 'brick_group', so only self.dragging and self.target are reset
DragRelease ==
    /\ ~crashed
    /\ tick_pc = "bricks" /\ cursor = 1
    /\ drag_root # NoBrick
    /\ drag_root' = NoBrick
    /\ UNCHANGED <<treeVars, welded_offset, bricks, bpos, bprev, cursor, upd,
                   brickSteps, removals, bmass, tick_pc, tickStart, tickLog,
                   crashed, dragLog, picks>>
    /\ UNCHANGED <<npcVars, weldVars, rootVars, extVars>>

\* a caller welds brick c to brick p: c.add_weld(p)
AddWeld(c, p) ==
    /\ LET S == add_weld(BrickState, c, p)
       IN  /\ welded_to' = S.wto
           /\ welded_children' = S.wch
           /\ welded_offset' = S.woff
    /\ upd' = [call |-> "add_weld", brick |-> c, parent |-> p,
               before |-> welded_to[c]]
    /\ UNCHANGED <<bricks, bpos, bprev, cursor, brickSteps, removals, bmass,
                   tick_pc, tickStart, tickLog, crashed, drag_root, dragLog,
                   picks>>
    /\ UNCHANGED <<npcVars, weldVars, rootVars, extVars>>

\* a caller unwelds brick c: c.remove_weld()
RemoveWeld(c) ==
    /\ LET S == remove_weld(BrickState, c)
       IN  /\ welded_to' = S.wto
           /\ welded_children' = S.wch
    /\ upd' = [call |-> "remove_weld", brick |-> c, parent |-> NoBrick,
               before |-> welded_to[c]]
    /\ UNCHANGED <<welded_offset, bricks, bpos, bprev, cursor, brickSteps,
                   removals, bmass, tick_pc, tickStart, tickLog, crashed,
                   drag_root, dragLog, picks>>
    /\ UNCHANGED <<npcVars, weldVars, rootVars, extVars>>

\* any sequence of add_weld and remove_weld calls
BookNext ==
    \/ \E c, p \in Bricks : AddWeld(c, p)
    \/ \E c \in Bricks : RemoveWeld(c)

PhysNext ==
    \/ BrickUpdate
    \/ \E at \in Bricks \cup {NoBrick} : AxeUpdate(at)
    \/ \E move \in DragMoves : DragStep(move)
    \/ \E b \in Bricks : DragPick(b)
    \/ DragRelease

(***************************************************************************)
(* 5. Vehicles: drive, mount, unmount                                      *)
(*                                                                         *)
(* Velocities are integers in 1/1000 px/s and dt in ms, so drive_accel *   *)
(* dt is exact.  Positions of the vehicle parts are owned by the vehicle's *)
(* update(); drive() is modelled by what it writes: drive_vel, the root's  *)
(* pos.x - prev.x, and the amounts it adds to the parts and wheel angles.  *)
(***************************************************************************)

Bike == 1

Car == 2

Vehicles == {Bike, Car}

NoVehicle == 0

NumNpcs == 2

Npcs == 1..NumNpcs

NoNpc == 0

\* drive() calls are issued until this much dt has accumulated
MaxDriveMs == 640

\* dt of a drive() call, ms: none, a frame at 50 or 33 fps, a long stall
DriveDt == {0, 20, 30, 200}

\* controller input vx
DriveInput == {-1, 0, 1}

\* drive_accel, px/s^2
drive_accel(v) == IF v = Bike THEN 800 ELSE 900

\* drive_max, 1/1000 px/s
drive_max(v) == IF v = Bike THEN 480000 ELSE 360000

\* the no-input deceleration drive_accel * 1.5 (Bike), * 1.2 (Car)
drive_decay(v) == IF v = Bike THEN (800 * 15) \div 10 ELSE (900 * 12) \div 10

\* "if self.drive_vel > target" left out
ClampHighNone(x, target) == x

\* "if self.drive_vel > target: self.drive_vel = target"
ClampHigh(x, target) == IF x > target THEN target ELSE x

\* "if self.drive_vel < target" left out
ClampLowNone(x, target) == x

\* "if self.drive_vel < target: self.drive_vel = target"
ClampLow(x, target) == IF x < target THEN target ELSE x

\* the target of drive(): drive_max in the direction of the input, 0 without
DriveTarget(v, vx) ==
    IF vx > 0 THEN drive_max(v) ELSE IF vx < 0 THEN -drive_max(v) ELSE 0

\* drive_vel after drive(vx, dt)
DriveVelAfter(v, vel, vx, dt) ==
    LET target == DriveTarget(v, vx)
    IN  IF target # 0
        THEN IF vel < target THEN ClampHigh(vel + drive_accel(v) * dt, target)
             ELSE IF vel > target
             THEN ClampLow(vel - drive_accel(v) * dt, target)
             ELSE vel
        ELSE IF vel > 0 THEN ClampLow(vel - drive_decay(v) * dt, 0)
             ELSE IF vel < 0 THEN ClampHigh(vel + drive_decay(v) * dt, 0)
             ELSE vel

\* part.pos.x += drive_vel * dt * 0.15 (Bike), * 0.12 (Car), in percent
NudgePct(v) == IF v = Bike THEN 15 ELSE 12

\* front_angle += drive_vel * 0.02 (Bike), * 0.015 (Car), in 1/1000
AnglePerVel(v) == IF v = Bike THEN 20 ELSE 15

DriveInit ==
    /\ drive_vel = [v \in Vehicles |-> 0]
    /\ root_vx = [v \in Vehicles |-> 0]
    /\ nudge_dx = [v \in Vehicles |-> 0]
    /\ angle_inc = [v \in Vehicles |-> 0]
    /\ driven \in Vehicles
    /\ driveElapsed = 0
    /\ rampOnly = TRUE
    /\ drive_before = 0
    /\ loop_in = NoCall

DriveIdle ==
    /\ drive_vel = [v \in Vehicles |-> 0]
    /\ root_vx = [v \in Vehicles |-> 0]
    /\ nudge_dx = [v \in Vehicles |-> 0]
    /\ angle_inc = [v \in Vehicles |-> 0]
    /\ driven = NoVehicle
    /\ driveElapsed = 0
    /\ rampOnly = TRUE
    /\ drive_before = 0
    /\ loop_in = NoCall

\* vehicle.drive(vx, dt) on the driven vehicle
Drive(vx, dt) ==
    /\ driven # NoVehicle
    /\ driveElapsed < MaxDriveMs
    /\ LET v   == driven
           vel == DriveVelAfter(v, drive_vel[v], vx, dt)
       IN  /\ drive_vel' = [drive_vel EXCEPT ![v] = vel]
           /\ root_vx' = [root_vx EXCEPT ![v] = vel * dt]
           /\ nudge_dx' = [nudge_dx EXCEPT ![v] = vel * dt * NudgePct(v)]
           /\ angle_inc' = [angle_inc EXCEPT ![v] = vel * AnglePerVel(v)]
           /\ drive_before' = drive_vel[v]
    /\ driveElapsed' = driveElapsed + dt
    /\ rampOnly' = (rampOnly /\ vx > 0)
    /\ UNCHANGED <<driven, loop_in, mountVars, particleVars, sceneVars,
                   coreVars>>

DriveNext == \E vx \in DriveInput, dt \in DriveDt : Drive(vx, dt)

\* one tick of the driver loop (the key block of main, and
\* PossessionManager.update): vx is built from the pressed keys and
\* "if vx != 0.0: vehicle.drive(vx, dt)"; without input drive() is not
\* called
DriverTick(vx, dt) ==
    /\ driven # NoVehicle
    /\ driveElapsed < MaxDriveMs
    /\ LET v   == driven
           vel == DriveVelAfter(v, drive_vel[v], vx, dt)
       IN  IF vx # 0
           THEN /\ drive_vel' = [drive_vel EXCEPT ![v] = vel]
                /\ root_vx' = [root_vx EXCEPT ![v] = vel * dt]
                /\ nudge_dx' = [nudge_dx EXCEPT ![v] = vel * dt * NudgePct(v)]
                /\ angle_inc' = [angle_inc EXCEPT ![v] = vel * AnglePerVel(v)]
           ELSE UNCHANGED <<drive_vel, root_vx, nudge_dx, angle_inc>>
    /\ drive_before' = drive_vel[driven]
    /\ loop_in' = [vx |-> vx, dt |-> dt]
    /\ driveElapsed' = driveElapsed + dt
    /\ rampOnly' = (rampOnly /\ vx > 0)
    /\ UNCHANGED <<driven, mountVars, particleVars, sceneVars, coreVars>>

DriverNext == \E vx \in DriveInput, dt \in DriveDt : DriverTick(vx, dt)

\* the NPC fields the vehicles write
RiderFields ==
    [stand |-> rider_stand, bike |-> mounted_bike, car |-> mounted_car,
     seat |-> seated]

MountInit ==
    /\ rider = [v \in Vehicles |-> NoNpc]
    /\ rider_stand = [n \in Npcs |-> TRUE]
    /\ mounted_bike = [n \in Npcs |-> NoVehicle]
    /\ mounted_car = [n \in Npcs |-> NoVehicle]
    /\ seated = [n \in Npcs |-> NoVehicle]
    /\ lastCall = NoCall

\* setattr(npc, 'mounted_bike', self) / setattr(npc, 'mounted_car', self)
TagRider(v, n) ==
    IF v = Bike
    THEN /\ mounted_bike' = [mounted_bike EXCEPT ![n] = v]
         /\ UNCHANGED mounted_car
    ELSE /\ mounted_car' = [mounted_car EXCEPT ![n] = v]
         /\ UNCHANGED mounted_bike

\* unmount that leaves the back-reference on the NPC
UntagRiderNot(v, n) == UNCHANGED <<mounted_bike, mounted_car>>

\* delattr(self.rider, 'mounted_bike') / delattr(self.rider, 'mounted_car')
UntagRider(v, n) ==
    IF v = Bike
    THEN /\ mounted_bike' = [mounted_bike EXCEPT ![n] = NoVehicle]
         /\ UNCHANGED mounted_car
    ELSE /\ mounted_car' = [mounted_car EXCEPT ![n] = NoVehicle]
         /\ UNCHANGED mounted_bike

\* Bike.mount(npc) / Car.mount(npc): rider, stand_enabled, back-reference,
\* and the snap of torso, head, arms and legs into the seated pose
Mount(v, n) ==
    /\ rider' = [rider EXCEPT ![v] = n]
    /\ rider_stand' = [rider_stand EXCEPT ![n] = FALSE]
    /\ TagRider(v, n)
    /\ seated' = [seated EXCEPT ![n] = v]
    /\ lastCall' = [op |-> "mount", vehicle |-> v, npc |-> n,
                    before |-> RiderFields]
    /\ UNCHANGED <<driveVars, particleVars, sceneVars, coreVars>>

\* Bike.unmount() / Car.unmount()
Unmount(v) ==
    /\ IF rider[v] # NoNpc
       THEN /\ rider_stand' = [rider_stand EXCEPT ![rider[v]] = TRUE]
            /\ UntagRider(v, rider[v])
       ELSE UNCHANGED <<rider_stand, mounted_bike, mounted_car>>
    /\ rider' = [rider EXCEPT ![v] = NoNpc]
    /\ lastCall' = [op |-> "unmount", vehicle |-> v, npc |-> rider[v],
                    before |-> RiderFields]
    /\ UNCHANGED <<seated, driveVars, particleVars, sceneVars, coreVars>>

MountNext ==
    \/ \E v \in Vehicles, n \in Npcs : Mount(v, n)
    \/ \E v \in Vehicles : Unmount(v)

(***************************************************************************)
(* 6. Particles: floor collision and constraint relaxation                 *)
(*                                                                         *)
(* The floor particle uses the bricks' LU sub-units; the constrained pair  *)
(* uses CU sub-units per world unit so that the halving steps of the       *)
(* relaxation are exact for the first passes.                              *)
(***************************************************************************)

\* collide_particles_with_floor: radius 8.0 of a particle without a size
DefaultRadius == 8

\* NPC.size
NpcSize == 14

\* collide_particles_with_floor: friction 0.6 of a numeric floor, in percent
DefaultFrictionPct == 60

MaxFloorCalls == 2

\* the radius the caller uses: float(size) * 0.5 or 8.0 in colison.py,
\* self.size / 2 in NPC.update
Radii == {DefaultRadius * LU, (NpcSize * LU) \div 2}

Frictions == {FloorFrictionPct, DefaultFrictionPct}

\* mutant: a particle exactly at the resting height is clamped as well
collide_with_floor_at_rest(p, radius, frictionPct) ==
    IF p.pos[2] >= FloorY - radius
    THEN LET pos  == <<p.pos[1], FloorY - radius>>
             vel  == VSub(pos, p.prev)
             velx == RDiv(vel[1] * Max(0, frictionPct), 100)
             prev == VSub(pos, <<velx, 0>>)
         IN  [pos |-> pos, prev |-> <<pos[1], prev[2]>>]
    ELSE p

\* the body of "for p in particles" of collide_particles_with_floor, and of
\* the floor block of NPC.update
collide_with_floor(p, radius, frictionPct) ==
    IF p.pos[2] > FloorY - radius
    THEN LET pos  == <<p.pos[1], FloorY - radius>>
             vel  == VSub(pos, p.prev)
             velx == RDiv(vel[1] * Max(0, frictionPct), 100)
             prev == VSub(pos, <<velx, 0>>)
         IN  [pos |-> pos, prev |-> <<pos[1], prev[2]>>]
    ELSE p

\* offsets of the particle from the resting height and velocities, sub-units
FloorOffsets == {-2, -1, 0, 1, 5}

FloorVelX == {-3, 0, 3}

FloorVelY == {-2, 0, 2}

FloorIdle ==
    /\ fl_p = [pos |-> <<0, 0>>, prev |-> <<0, 0>>]
    /\ fl_env = [radius |-> 0, friction |-> 0]
    /\ fl_log = <<>>

\* a particle near the floor, before floor collision is applied
FloorInit ==
    /\ fl_env \in [radius : Radii, friction : Frictions]
    /\ \E x \in {0, 10 * LU}, dy \in FloorOffsets,
          vx \in FloorVelX, vy \in FloorVelY :
          LET pos == <<x, FloorY - fl_env.radius + dy>>
          IN  fl_p = [pos |-> pos, prev |-> VSub(pos, <<vx, vy>>)]
    /\ fl_log = <<fl_p>>

\* floor collision is applied to the particle once more
FloorCollide ==
    /\ fl_log # <<>>
    /\ Len(fl_log) <= MaxFloorCalls
    /\ fl_p' = collide_with_floor(fl_p, fl_env.radius, fl_env.friction)
    /\ fl_log' = Append(fl_log, fl_p')
    /\ UNCHANGED <<fl_env, constrVars, driveVars, mountVars, sceneVars,
                   coreVars>>

FloorNext == FloorCollide

\* sub-units per world unit of the constrained pair
CU == 256

\* the constraint's rest length, half of the 100 units between the particles
RestLength == 50

\* Particle.__init__: mass 1.0 for both particles
PairMass == 1

\* range(5) in NPC.update, range(12) in Bike.update
Iterations(solver) == IF solver = "npc" THEN 5 ELSE 12

\* delta.length(), rounded down
CLength(v) == ISqrtIn(Dot(v, v), 0, 46340)

\* mutant: the correction is applied with the wrong sign
RelaxPassApart(a, b, solver) ==
    LET delta == VSub(b, a)
        d     == CLength(delta)
        err   == d - RestLength * CU
        den   == IF solver = "npc" THEN 2 * d
                 ELSE 2 * d * (PairMass + PairMass)
        move  == <<RDiv(delta[1] * err * PairMass, den),
                   RDiv(delta[2] * err * PairMass, den)>>
    IN  IF d = 0 THEN [a |-> a, b |-> b]
        ELSE [a |-> VSub(a, move), b |-> VAdd(b, move)]

\* one pass of the relaxation loop over the single constraint (ia, ib, rest)
\* NPC.update:  pa.pos += delta * 0.5 * diff
\* Bike.update: pa.pos += delta * 0.5 * diff * (mb / total)
RelaxPass(a, b, solver) ==
    LET delta == VSub(b, a)
        d     == CLength(delta)
        err   == d - RestLength * CU
        den   == IF solver = "npc" THEN 2 * d
                 ELSE 2 * d * (PairMass + PairMass)
        move  == <<RDiv(delta[1] * err * PairMass, den),
                   RDiv(delta[2] * err * PairMass, den)>>
    IN  IF d = 0 THEN [a |-> a, b |-> b]
        ELSE [a |-> VAdd(a, move), b |-> VSub(b, move)]

\* directions of pb from pa with integer coordinates at length 100
Directions ==
    {<<100, 0>>, <<0, 100>>, <<-100, 0>>, <<0, -100>>, <<60, 80>>,
     <<80, -60>>, <<-28, 96>>, <<-96, -28>>}

ConstrIdle ==
    /\ cn_a = <<0, 0>>
    /\ cn_b = <<0, 0>>
    /\ cn_solver = "none"
    /\ cn_pass = 0
    /\ cn_log = <<>>

\* two particles 100 units apart, before the relaxation loop
ConstrInit ==
    /\ cn_solver \in {"npc", "bike"}
    /\ cn_a \in {<<0, 0>>, <<40 * CU, -25 * CU>>}
    /\ \E dir \in Directions :
          cn_b = VAdd(cn_a, <<dir[1] * CU, dir[2] * CU>>)
    /\ cn_pass = 0
    /\ cn_log = <<CLength(VSub(cn_b, cn_a))>>

\* the next pass of "for _ in range(n)" over the constraint
Relax ==
    /\ cn_solver # "none"
    /\ cn_pass < Iterations(cn_solver)
    /\ LET r == RelaxPass(cn_a, cn_b, cn_solver)
       IN  /\ cn_a' = r.a
           /\ cn_b' = r.b
           /\ cn_log' = Append(cn_log, CLength(VSub(r.b, r.a)))
    /\ cn_pass' = cn_pass + 1
    /\ UNCHANGED <<cn_solver, floorVars, driveVars, mountVars, sceneVars,
                   coreVars>>

ConstrNext == Relax

(***************************************************************************)
(* 7. WeldingTool.enforce_joints                                           *)
(*                                                                         *)
(* Objects 1 and 2 are NPCs (objects with particles, two particles each    *)
(* here), 3 and 4 are bricks (objects with p).  Coordinates are in 1/64    *)
(* unit so that centroids, halves and the 0.5 factor of prev stay exact.   *)
(***************************************************************************)

JointNpcs == {1, 2}

JointBricks == {3, 4}

JointObjs == JointNpcs \cup JointBricks

\* hasattr(t, 'particles')
IsNpc(t) == t \in JointNpcs

\* (obj, attach_index) ends a joint can have: an NPC particle, an NPC as a
\* whole (attach_index None), a brick
JointEnds ==
    {<<1, 0>>, <<1, 1>>, <<1, NoAttach>>, <<2, 0>>, <<3, NoAttach>>,
     <<4, NoAttach>>}

\* j['offset'] values
JointOffsets == {<<2560, 0>>, <<-1024, 1536>>}

VHalf(v) == <<v[1] \div 2, v[2] \div 2>>

VNeg(v) == <<-v[1], -v[2]>>

\* every coordinate is a multiple of 8: one more call computes exactly
ExactParts(parts) ==
    \A t \in JointObjs : \A k \in 1..Len(parts[t]) :
        /\ parts[t][k].pos[1] % 8 = 0 /\ parts[t][k].pos[2] % 8 = 0
        /\ parts[t][k].prev[1] % 8 = 0 /\ parts[t][k].prev[2] % 8 = 0

RECURSIVE SumPos(_, _)
SumPos(ps, k) ==
    IF k > Len(ps) THEN <<0, 0>> ELSE VAdd(ps[k].pos, SumPos(ps, k + 1))

\* get_pos(t, attach_idx): the attached particle, else p.pos of a brick,
\* else the centroid of the particles
get_pos(parts, t, attach_idx) ==
    IF attach_idx # NoAttach /\ IsNpc(t) /\ attach_idx + 1 <= Len(parts[t])
    THEN parts[t][attach_idx + 1].pos
    ELSE IF ~IsNpc(t) THEN parts[t][1].pos
    ELSE LET sum == SumPos(parts[t], 1)
         IN  <<sum[1] \div Len(parts[t]), sum[2] \div Len(parts[t])>>

\* move_by that shifts pos only
move_by_pos_only(parts, t, delta) ==
    [parts EXCEPT ![t] =
        [k \in 1..Len(parts[t]) |->
            [pos |-> VAdd(parts[t][k].pos, delta), prev |-> parts[t][k].prev]]]

\* move_by(t, delta): pos += delta, prev += delta * 0.5, for p of a brick or
\* every particle of an NPC
move_by(parts, t, delta) ==
    [parts EXCEPT ![t] =
        [k \in 1..Len(parts[t]) |->
            [pos |-> VAdd(parts[t][k].pos, delta),
             prev |-> VAdd(parts[t][k].prev, VHalf(delta))]]]

\* correction = (pa + offset) - pb
Correction(parts, j) ==
    VSub(VAdd(get_pos(parts, j.a, j.a_attach), j.offset),
         get_pos(parts, j.b, j.b_attach))

\* the branch that moves the NPC end as well
EnforceOneSplitAlways(parts, j) ==
    LET half == VHalf(Correction(parts, j))
    IN  move_by(move_by(parts, j.a, VNeg(half)), j.b, half)

\* the body of "for j in self.joints" for one joint
EnforceOne(parts, j) ==
    LET correction == Correction(parts, j)
        half       == VHalf(correction)
    IN  IF IsNpc(j.a) /\ ~IsNpc(j.b) THEN move_by(parts, j.b, correction)
        ELSE IF IsNpc(j.b) /\ ~IsNpc(j.a)
        THEN move_by(parts, j.a, VNeg(correction))
        ELSE move_by(move_by(parts, j.a, VNeg(half)), j.b, half)

\* enforce_joints: the loop over self.joints; st = [parts, log]
RECURSIVE EnforceFrom(_, _, _)
EnforceFrom(st, js, k) ==
    IF k > Len(js) THEN st
    ELSE LET after == EnforceOne(st.parts, js[k])
         IN  EnforceFrom([parts |-> after,
                          log |-> Append(st.log,
                                     [joint |-> js[k], before |-> st.parts,
                                      after |-> after])],
                         js, k + 1)

JointIdle ==
    /\ jn_parts = <<>>
    /\ jn_joints = <<>>
    /\ jn_log = <<>>

\* where the particles of each object start, and their common velocity
JointStartPos ==
    [t \in JointObjs |->
        CASE t = 1 -> << <<0, 0>>, <<0, 2560>> >>
          [] t = 2 -> << <<6400, 0>>, <<6400, 2560>> >>
          [] t = 3 -> << <<3200, 640>> >>
          [] OTHER -> << <<-1920, 4480>> >>]

JointStartVel == {<<0, 0>>, <<64, 128>>}

JointChoices ==
    {[a |-> ea[1], a_attach |-> ea[2], b |-> eb[1], b_attach |-> eb[2],
      offset |-> off] :
        ea \in JointEnds, eb \in JointEnds, off \in JointOffsets}

\* one or two joints between two different ends
JointInit ==
    /\ \E vel \in JointStartVel :
          jn_parts = [t \in JointObjs |->
                        [k \in 1..Len(JointStartPos[t]) |->
                            [pos |-> JointStartPos[t][k],
                             prev |-> VSub(JointStartPos[t][k], vel)]]]
    /\ \E j1 \in JointChoices :
          /\ <<j1.a, j1.a_attach>> # <<j1.b, j1.b_attach>>
          /\ \/ jn_joints = <<j1>>
             \/ \E j2 \in JointChoices :
                   /\ <<j2.a, j2.a_attach>> # <<j2.b, j2.b_attach>>
                   /\ j2.offset = j1.offset
                   /\ j2.a = j1.b /\ j2.a_attach = j1.b_attach
                   /\ jn_joints = <<j1, j2>>
    /\ jn_log = <<>>

\* WeldingTool.enforce_joints()
EnforceJoints ==
    /\ ExactParts(jn_parts)
    /\ \E S \in {EnforceFrom([parts |-> jn_parts, log |-> <<>>],
                             jn_joints, 1)} :
          /\ jn_parts' = S.parts
          /\ jn_log' = S.log
    /\ UNCHANGED <<jn_joints, poseVars, rayVars, bodyVars, driveVars, mountVars,
                   particleVars, coreVars>>

JointNext == EnforceJoints

(***************************************************************************)
(* 8. The rider pose of Bike.update / Car.update                           *)
(*                                                                         *)
(* Coordinates are in 1/20 px.  The rig's own physics (integration,        *)
(* constraints, springs, floor) only decides where its parts are when the  *)
(* rider block runs: the root position is an input and the parts sit at    *)
(* their rest offsets from it.  The pedal angle (self._time * 8) is an     *)
(* input in quarter turns.                                                 *)
(***************************************************************************)

MaxPoseTicks == 2

\* NPC.__init__: head, t1..t4, arms, legs relative to (x, y)
RiderLayout ==
    [i \in ParticleIdx |->
        CASE i = 0 -> <<0, -2000>>
          [] i = 1 -> <<0, -1200>>
          [] i = 2 -> <<0, -400>>
          [] i = 3 -> <<0, 400>>
          [] i = 4 -> <<0, 1200>>
          [] i = 5 -> <<-600, -200>>
          [] i = 6 -> <<600, -200>>
          [] i = 7 -> <<-160, 2800>>
          [] OTHER -> <<160, 2800>>]

\* rest offsets of the parts: size 140 (Bike), 220 (Car)
SeatOff(v) == IF v = Bike THEN <<0, -616>> ELSE <<0, -264>>

\* front wheel of the bike, roof of the car: where the hands reach
HandPartOff(v) == IF v = Bike THEN <<1260, 840>> ELSE <<0, -1100>>

PedalOff == <<0, 252>>

\* max(6, size * 0.06) on the bike, max(6, size * 0.05) in the car
TorsoUp(v) == IF v = Bike THEN 168 ELSE 220

\* max(18, size * 0.08) / max(18, size * 0.06)
HeadUp(v) == 360

\* (-size * 0.08 * facing, -size * 0.22) / (-size * 0.06 * facing, -size * 0.02)
HandOff(v, facing) ==
    IF v = Bike THEN <<-224 * facing, -616>> ELSE <<-264 * facing, -88>>

\* max(8, size * 0.04)
ArmDx(v) == IF v = Bike THEN 160 ELSE 176

\* (cos(ang) * leg_x, sin(ang) * leg_y) at ang = q quarter turns, with
\* leg_x = max(8, size * 0.06), leg_y = max(4, size * 0.03)
PedalVec(q) ==
    CASE q = 0 -> <<168, 0>>
      [] q = 1 -> <<0, 84>>
      [] q = 2 -> <<-168, 0>>
      [] OTHER -> <<0, -84>>

Locked(pos) == [pos |-> pos, prev |-> pos]

\* the rider block of Bike.update (bike.py 343-417) and of Car.update
\* (car.py 298-343): the particles it assigns, as index -> (pos, prev)
RiderPose(v, root, facing, q) ==
    LET seat  == VAdd(root, SeatOff(v))
        torso == VAdd(seat, <<0, -TorsoUp(v)>>)
        head  == VAdd(torso, <<0, -HeadUp(v)>>)
        hb    == VAdd(VAdd(root, HandPartOff(v)), HandOff(v, facing))
        mid   == VAdd(torso, VHalf(VSub(hb, torso)))
        la    == VAdd(mid, <<-ArmDx(v), -120>>)
        ra    == VAdd(mid, <<ArmDx(v), -120>>)
        pedal == VAdd(root, PedalOff)
        upper == (2 :> Locked(torso)) @@ (0 :> Locked(head))
                    @@ (5 :> Locked(la)) @@ (6 :> Locked(ra))
    IN  IF v = Bike
        THEN upper @@ (7 :> Locked(VAdd(pedal, PedalVec(q))))
                   @@ (8 :> Locked(VAdd(pedal, PedalVec((q + 2) % 4))))
        ELSE upper

PoseIdle ==
    /\ ps_v = NoVehicle
    /\ ps_rider = <<>>
    /\ ps_stand = TRUE
    /\ ps_ticks = 0
    /\ ps_log = <<>>

PoseRoots == {<<4000, 6000>>, <<4800, 5600>>}

RiderVels == {<<0, 0>>, <<40, -80>>}

\* an NPC that has been mounted on a rig and has moved since
PoseInit ==
    /\ ps_v \in Vehicles
    /\ \E at \in PoseRoots, vel \in RiderVels :
          ps_rider = [i \in ParticleIdx |->
                        [pos |-> VAdd(at, RiderLayout[i]),
                         prev |-> VSub(VAdd(at, RiderLayout[i]), vel)]]
    /\ ps_stand = FALSE
    /\ ps_ticks = 0
    /\ ps_log = <<>>

\* Bike.update / Car.update with a rider: stand_enabled off and the pose
\* particles hard set
RigUpdate(root, facing, q) ==
    /\ ps_v # NoVehicle
    /\ LET pose == RiderPose(ps_v, root, facing, q)
       IN  /\ ps_rider' = [i \in ParticleIdx |->
                              IF i \in DOMAIN pose THEN pose[i]
                              ELSE ps_rider[i]]
           /\ ps_log' = [vehicle |-> ps_v, written |-> DOMAIN pose,
                         before |-> ps_rider]
    /\ ps_stand' = FALSE
    /\ UNCHANGED <<ps_v, ps_ticks, jointVars, rayVars, bodyVars, driveVars,
                   mountVars, particleVars, coreVars>>

\* NPC.update of the rider between two rig updates: every particle keeps
\* moving (Verlet step under gravity)
RiderTick ==
    /\ ps_v # NoVehicle
    /\ ps_ticks < MaxPoseTicks
    /\ ps_ticks' = ps_ticks + 1
    /\ ps_rider' = [i \in ParticleIdx |->
                      [pos |-> VAdd(VAdd(ps_rider[i].pos,
                                         VSub(ps_rider[i].pos,
                                              ps_rider[i].prev)),
                                    <<0, 8>>),
                       prev |-> ps_rider[i].pos]]
    /\ ps_log' = <<>>
    /\ UNCHANGED <<ps_v, ps_stand, jointVars, rayVars, bodyVars, driveVars,
                   mountVars, particleVars, coreVars>>

\* PossessionManager.possess of the rider: stand_enabled = True
RiderPossess ==
    /\ ps_v # NoVehicle
    /\ ps_stand' = TRUE
    /\ ps_log' = <<>>
    /\ UNCHANGED <<ps_v, ps_rider, ps_ticks, jointVars, rayVars, bodyVars,
                   driveVars, mountVars, particleVars, coreVars>>

PoseNext ==
    \/ \E root \in PoseRoots, facing \in {-1, 1}, q \in 0..3 :
          RigUpdate(root, facing, q)
    \/ RiderTick
    \/ RiderPossess

(***************************************************************************)
(* 9. raycast_aabb                                                         *)
(*                                                                         *)
(* Arguments are integers; a parameter t is the fraction <<n, d>> with     *)
(* d > 0, compared by cross-multiplication, so the divisions are exact.    *)
(***************************************************************************)

\* n / d with the sign carried by n
Rat(n, d) == IF d < 0 THEN <<-n, -d>> ELSE <<n, d>>

RLt(a, b) == a[1] * b[2] < b[1] * a[2]

RLe(a, b) == a[1] * b[2] <= b[1] * a[2]

\* tmin = -1e9, tmax = 1e9
TMinStart == <<-1000000000, 1>>

TMaxStart == <<1000000000, 1>>

\* (False, None, None, None)
RayMiss == [hit |-> FALSE]

\* one slab: st = [miss, tmin, tmax, normal]; o, d the ray's coordinate
\* and direction on this axis, lo..hi the box on it, axis 1 (x) or 2 (y)
Slab(st, o, d, lo, hi, axis) ==
    IF st.miss THEN st
    ELSE IF d = 0
    THEN IF o < lo \/ o > hi THEN [st EXCEPT !.miss = TRUE] ELSE st
    ELSE LET a  == Rat(lo - o, d)
             b  == Rat(hi - o, d)
             t1 == IF RLt(b, a) THEN b ELSE a
             t2 == IF RLt(b, a) THEN a ELSE b
             n  == IF d > 0 THEN -1 ELSE 1
             s1 == IF RLt(st.tmin, t1)
                   THEN [st EXCEPT !.tmin = t1,
                                   !.normal = IF axis = 1 THEN <<n, 0>>
                                              ELSE <<0, n>>]
                   ELSE st
         IN  IF RLt(t2, s1.tmax) THEN [s1 EXCEPT !.tmax = t2] ELSE s1

\* not (t_hit < 0 or t_hit > max_dist)
RayAccept(slabs, t_hit, max_dist) ==
    /\ RLe(<<0, 1>>, t_hit)
    /\ RLe(t_hit, <<max_dist, 1>>)

\* raycast_aabb(origin, direction, max_dist, aabb_center, aabb_size) with
\* aabb_size a number; half is aabb_size * 0.5
raycast_aabb(origin, direction, max_dist, center, half) ==
    LET s0 == [miss |-> FALSE, tmin |-> TMinStart, tmax |-> TMaxStart,
               normal |-> <<>>]
        sx == Slab(s0, origin[1], direction[1],
                   center[1] - half, center[1] + half, 1)
        sy == Slab(sx, origin[2], direction[2],
                   center[2] - half, center[2] + half, 2)
        t_hit == IF RLe(<<0, 1>>, sy.tmin) THEN sy.tmin ELSE sy.tmax
    IN  IF sy.miss THEN RayMiss
        ELSE IF ~RayAccept(sy, t_hit, max_dist) THEN RayMiss
        ELSE [hit |-> TRUE, t |-> t_hit,
              \* hit_pos = origin + direction * t_hit, over the denominator
              \* of t_hit
              hit_pos |-> <<origin[1] * t_hit[2] + direction[1] * t_hit[1],
                            origin[2] * t_hit[2] + direction[2] * t_hit[1]>>,
              normal |-> sy.normal]

RayIdle ==
    /\ rc_in = <<>>
    /\ rc_out = <<>>

RayOrigins == {<<0, 0>>, <<6, 1>>, <<-3, 5>>}

RayDirs == {d \in (-2..2) \X (-2..2) : d # <<0, 0>>}

RayDists == {3, 12}

BoxCenters == {<<6, 0>>, <<0, 6>>, <<5, 5>>}

BoxHalves == {1, 3}

\* a call about to be made
RayInit ==
    /\ rc_in \in [origin : RayOrigins, direction : RayDirs,
                   max_dist : RayDists, center : BoxCenters,
                   half : BoxHalves]
    /\ rc_out = <<>>

\* the call returns
Raycast ==
    /\ rc_out = <<>>
    /\ rc_in # <<>>
    /\ rc_out' = raycast_aabb(rc_in.origin, rc_in.direction, rc_in.max_dist,
                              rc_in.center, rc_in.half)
    /\ UNCHANGED <<rc_in, jointVars, poseVars, bodyVars, driveVars, mountVars,
                   particleVars, coreVars>>

RayNext == Raycast

(***************************************************************************)
(* 10. NPC.update with a floor: integration, floor block, bleeding         *)
(*                                                                         *)
(* Two particles of the NPC are followed, by their y coordinate in px: a   *)
(* leg standing on the floor and the head.  dt is 0.1 s.  The standing     *)
(* correction and the constraint relaxation only move pos before the floor *)
(* block runs: their net effect on pos.y is an input of the update.  Hits  *)
(* land on a particle more than 60 px from both, so their push does not    *)
(* reach them.                                                             *)
(***************************************************************************)

MaxBodyHits == 9

MaxBodyTicks == 6

BodyParticles == {1, 2}

\* floor_y of the scene
BodyFloorY == 400

\* fy - self.size / 2
GroundY == BodyFloorY - NpcSize \div 2

\* self.acc * dt * dt with gravity (0, 900) and dt = 0.1
GravityStep == 9

\* drop_dead: impulse_y = 300
ImpulseY == 300

\* drop_dead: p.pos += Vector2(0, 8)
DropNudge == 8

\* Particle.update(dt), y only
BodyIntegrate(q) == [y |-> q.y + (q.y - q.prev) + GravityStep, prev |-> q.y]

\* the floor block of NPC.update: clamp to the ground line, vel.y = 0
BodyFloor(q) == IF q.y > GroundY THEN [y |-> GroundY, prev |-> GroundY] ELSE q

\* drop_dead(): p.prev = p.pos - (0, impulse_y); p.pos += (0, 8)
BodyDrop(q) == [y |-> q.y + DropNudge, prev |-> q.y - ImpulseY]

BodyIdle ==
    /\ bd_p = <<>>
    /\ bd_hp = 0
    /\ bd_bleed = 0
    /\ bd_stand = TRUE
    /\ bd_hits = 0
    /\ bd_ticks = 0
    /\ bd_log = <<>>

\* a fresh NPC standing on the floor (leg on the ground line, head 240 px
\* above) or spawned higher up
BodyInit ==
    /\ \E lift \in {0, 30} :
          bd_p = [i \in BodyParticles |->
                    IF i = 1
                    THEN [y |-> GroundY - lift, prev |-> GroundY - lift]
                    ELSE [y |-> GroundY - lift - 240,
                          prev |-> GroundY - lift - 240]]
    /\ bd_hp = InitialHp
    /\ bd_bleed = 0
    /\ bd_stand = TRUE
    /\ bd_hits = 0
    /\ bd_ticks = 0
    /\ bd_log = <<>>

\* apply_bullet_hit: bleed timer and immediate hp loss
BodyHit ==
    /\ bd_hits < MaxBodyHits
    /\ bd_hits' = bd_hits + 1
    /\ bd_bleed' = Max(bd_bleed, BleedDuration)
    /\ bd_hp' = bd_hp - HitDamage
    /\ bd_log' = <<>>
    /\ UNCHANGED <<bd_p, bd_stand, bd_ticks, jointVars, poseVars, rayVars,
                   driveVars, mountVars, particleVars, coreVars>>

\* NPC.update(0.1, floor): integrate, corrections (adj), floor block, then
\* the bleeding block with drop_dead when hp is depleted
BodyUpdate(adj) ==
    /\ bd_ticks < MaxBodyTicks
    /\ bd_ticks' = bd_ticks + 1
    /\ LET moved   == [i \in BodyParticles |->
                         LET q == BodyIntegrate(bd_p[i])
                         IN  [q EXCEPT !.y = q.y + adj]]
           floored == [i \in BodyParticles |-> BodyFloor(moved[i])]
           bleeds  == bd_bleed > 0
           hpAfter == IF bleeds THEN HpAfterBleed(bd_hp, 100) ELSE bd_hp
           drops   == bleeds /\ hpAfter <= 0
       IN  /\ bd_bleed' = IF bleeds THEN BleedTimeAfter(bd_bleed, 100)
                          ELSE bd_bleed
           /\ bd_hp' = hpAfter
           /\ bd_stand' = IF drops THEN FALSE ELSE bd_stand
           /\ bd_p' = IF drops
                      THEN [i \in BodyParticles |-> BodyDrop(floored[i])]
                      ELSE floored
           /\ bd_log' = [dropped |-> drops, floored |-> floored]
    /\ UNCHANGED <<bd_hits, jointVars, poseVars, rayVars, driveVars, mountVars,
                   particleVars, coreVars>>

BodyAdjust == {-3, 0, 2}

BodyNext ==
    \/ BodyHit
    \/ \E adj \in BodyAdjust : BodyUpdate(adj)

SceneIdle == JointIdle /\ PoseIdle /\ RayIdle /\ BodyIdle

(***************************************************************************)
(* Specifications                                                          *)
(***************************************************************************)

\* an NPC alone: no welding tool activity, no bricks
\* nothing outside the NPC, welding tool and brick sections is active
ExtIdle == DriveIdle /\ MountInit /\ FloorIdle /\ ConstrIdle /\ SceneIdle

\* the NPC, welding tool and bricks are not active
CoreIdle == NPCInit /\ WeldInit /\ RootIdle /\ PhysIdle

InitNPC == NPCInit /\ WeldInit /\ TreeInit /\ RootIdle /\ PhysIdle /\ ExtIdle

SpecNPC == InitNPC /\ [][NPCNext]_vars

InitDeath == NPCInit /\ WeldInit /\ TreeInit /\ RootIdle /\ PhysIdle /\ ExtIdle

SpecDeath == InitDeath /\ [][DeathNext]_vars

\* the welding tool alone: group bookkeeping does not read the NPC or the
\* brick weld tree
InitWeld == NPCInit /\ WeldInit /\ TreeInit /\ RootIdle /\ PhysIdle /\ ExtIdle

SpecWeld == InitWeld /\ [][WeldNext]_vars

\* get_root on any welded_to structure
InitRoot == NPCInit /\ WeldInit /\ RootInit /\ PhysIdle /\ ExtIdle

\* get_root runs to completion once called: the loop is sequential code
SpecRoot == InitRoot /\ [][RootNext]_vars /\ WF_vars(GetRootStep)

\* the brick loop of MakersGun.update with the axe
InitBrick == NPCInit /\ WeldInit /\ RootIdle /\ PhysInit /\ ExtIdle

SpecBrick == InitBrick /\ [][PhysNext]_vars

\* the same scene with bricks of mass 0 among the spawned ones
InitFault == NPCInit /\ WeldInit /\ RootIdle /\ FaultInit /\ ExtIdle

SpecFault == InitFault /\ [][PhysNext]_vars

\* the spawned bricks, welded and unwelded by direct calls
InitBook == NPCInit /\ WeldInit /\ RootIdle /\ RowInit /\ ExtIdle

SpecBook == InitBook /\ [][BookNext]_vars

\* one vehicle receiving drive() calls
InitDrive ==
    CoreIdle /\ TreeInit /\ DriveInit /\ MountInit /\ FloorIdle /\ ConstrIdle
        /\ SceneIdle

SpecDrive == InitDrive /\ [][DriveNext]_vars

\* one vehicle under the per-tick driver loop
InitDriver ==
    CoreIdle /\ TreeInit /\ DriveInit /\ MountInit /\ FloorIdle /\ ConstrIdle
        /\ SceneIdle

SpecDriver == InitDriver /\ [][DriverNext]_vars

\* NPCs mounting and leaving the bike and the car
InitMount ==
    CoreIdle /\ TreeInit /\ DriveIdle /\ MountInit /\ FloorIdle /\ ConstrIdle
        /\ SceneIdle

SpecMount == InitMount /\ [][MountNext]_vars

\* a particle run through floor collision
InitFloor ==
    CoreIdle /\ TreeInit /\ DriveIdle /\ MountInit /\ FloorInit /\ ConstrIdle
        /\ SceneIdle

SpecFloor == InitFloor /\ [][FloorNext]_vars

\* a single distance constraint being relaxed
InitConstr ==
    CoreIdle /\ TreeInit /\ DriveIdle /\ MountInit /\ FloorIdle /\ ConstrInit
        /\ SceneIdle

SpecConstr == InitConstr /\ [][ConstrNext]_vars

\* the joints of the welding tool being enforced
InitJoint ==
    CoreIdle /\ TreeInit /\ DriveIdle /\ MountInit /\ FloorIdle /\ ConstrIdle
        /\ JointInit /\ PoseIdle /\ RayIdle /\ BodyIdle

SpecJoint == InitJoint /\ [][JointNext]_vars

\* a rig with a rider being updated
InitPose ==
    CoreIdle /\ TreeInit /\ DriveIdle /\ MountInit /\ FloorIdle /\ ConstrIdle
        /\ JointIdle /\ PoseInit /\ RayIdle /\ BodyIdle

SpecPose == InitPose /\ [][PoseNext]_vars

\* calls of raycast_aabb
InitRay ==
    CoreIdle /\ TreeInit /\ DriveIdle /\ MountInit /\ FloorIdle /\ ConstrIdle
        /\ JointIdle /\ PoseIdle /\ RayInit /\ BodyIdle

SpecRay == InitRay /\ [][RayNext]_vars

\* an NPC over a floor, being hit and updated
InitBody ==
    CoreIdle /\ TreeInit /\ DriveIdle /\ MountInit /\ FloorIdle /\ ConstrIdle
        /\ JointIdle /\ PoseIdle /\ RayIdle /\ BodyInit

SpecBody == InitBody /\ [][BodyNext]_vars

(***************************************************************************)
(* Properties                                                              *)
(***************************************************************************)

\* the bleed-to-death scenario has run: one hit that found a particle,
\* then 30 calls of update(dt = 0.1)
BleedScenarioDone ==
    /\ hits = 1
    /\ ticksAfterHit = 30
    /\ elapsedAfterHit = 30 * 100

\* C1 as stated: the scenario ends with hp <= 0, drop_dead triggered exactly
\* once and stand_enabled False.
C1_BleedToDeathAsStated ==
    BleedScenarioDone =>
        (hp <= 0 /\ dropDeadCalls = 1 /\ stand_enabled = FALSE)

\* C1 amended: the scenario ends with hp = 40 (100 - 10 - 20 * 2.5), the
\* bleed timer expired, drop_dead never triggered and stand_enabled still
\* True.
C1_BleedScenarioSurvives ==
    BleedScenarioDone =>
        (hp = 40000 /\ bleed_time <= 0 /\ dropDeadCalls = 0
            /\ stand_enabled = TRUE)

C1_Witness == BleedScenarioDone /\ hp = 40000

\* C2 as stated: every joint's group is the id of an existing group and both
\* endpoints of the joint are members of that group.
C2_JointEndpointsInGroup ==
    \A k \in 1..Len(joints) :
        /\ joints[k].group \in GroupIds(weld_groups)
        /\ joints[k].a \in Members(weld_groups, joints[k].group)
        /\ joints[k].b \in Members(weld_groups, joints[k].group)

\* some member of the group gid, as it was before the call, is joined to a
\* rejected object
JoinedToGroup(js, rejected, groups, gid) ==
    \E k \in 1..Len(js) :
        \/ js[k].a \in rejected /\ js[k].b \in Members(groups, gid)
        \/ js[k].b \in rejected /\ js[k].a \in Members(groups, gid)

\* C3 as stated: when weld_effect rejects an addition or a merge because the
\* group would exceed max_group_size, weld_groups is unchanged and no joint
\* links the rejected object (or group) to that group.
C3_OverflowRejected ==
    overflowLog # NoLog =>
        /\ overflowLog.groupsAfter = overflowLog.groupsBefore
        /\ ~JoinedToGroup(overflowLog.jointsAfter, overflowLog.rejected,
                          overflowLog.groupsBefore, overflowLog.into)

\* no object is a member of two groups
NoSharedMember(groups) ==
    \A i, k \in 1..Len(groups) :
        i # k => groups[i].members \cap groups[k].members = {}

\* C4: after a merge of two groups, every joint that referenced either
\* group id references the surviving id, the absorbed id is no longer a key,
\* the surviving member set is the union of both, and no object is in two
\* groups.
C4_GroupMerge ==
    /\ NoSharedMember(weld_groups)
    /\ mergeLog # NoLog =>
        LET m == mergeLog IN
        /\ Len(m.jointsAfter) = Len(m.jointsBefore)
        /\ \A k \in 1..Len(m.jointsBefore) :
              m.jointsBefore[k].group \in {m.survivor, m.absorbed}
                  => m.jointsAfter[k].group = m.survivor
        /\ m.absorbed \notin GroupIds(m.groupsAfter)
        /\ m.survivor \in GroupIds(m.groupsAfter)
        /\ Members(m.groupsAfter, m.survivor) =
              Members(m.groupsBefore, m.survivor)
                  \cup Members(m.groupsBefore, m.absorbed)
        /\ NoSharedMember(m.groupsAfter)

\* a merge happened and a joint of the absorbed group was re-tagged
C4_Witness ==
    /\ mergeLog # NoLog
    /\ \E k \in 1..Len(mergeLog.jointsBefore) :
          mergeLog.jointsBefore[k].group = mergeLog.absorbed

\* C5: every member set of weld_groups has at most max_group_size elements.
C5_GroupSizeCapped ==
    \A k \in 1..Len(weld_groups) :
        Cardinality(weld_groups[k].members) <= max_group_size

\* a full group has just turned an object or a group away
C5_Witness ==
    /\ overflowLog # NoLog
    /\ \E k \in 1..Len(weld_groups) :
          /\ weld_groups[k].id = overflowLog.into
          /\ Cardinality(weld_groups[k].members) = max_group_size

\* the bricks reached from b by following welded_to at most n times
RECURSIVE ChainFrom(_, _, _)
ChainFrom(wto, b, n) ==
    IF n = 0 \/ wto[b] = NoBrick THEN {b}
    ELSE {b} \cup ChainFrom(wto, wto[b], n - 1)

\* following welded_to from b never revisits a brick
RECURSIVE NoRevisit(_, _, _)
NoRevisit(wto, b, seen) ==
    IF wto[b] = NoBrick THEN TRUE
    ELSE IF wto[b] \in seen \cup {b} THEN FALSE
    ELSE NoRevisit(wto, wto[b], seen \cup {b})

GetRootResultOk ==
    gr_pc = "done" =>
        /\ gr_cur \in Bricks
        /\ welded_to[gr_start] = NoBrick => gr_cur = gr_start
        /\ NoRevisit(welded_to, gr_start, {}) =>
              /\ welded_to[gr_cur] = NoBrick
              /\ gr_cur \in ChainFrom(welded_to, gr_start, NumBricks)

\* C6: get_root terminates and returns a brick for every welded_to
\* structure, cycles included; on an acyclic chain the result is the
\* ancestor whose welded_to is None, the brick itself when it is unwelded.
C6_GetRootTerminates ==
    /\ [](gr_pc = "loop" => <>(gr_pc = "done"))
    /\ []GetRootResultOk

\* get_root has returned on a structure with a cycle, after walking it
C6_Witness ==
    /\ gr_pc = "done"
    /\ ~NoRevisit(welded_to, gr_start, {})
    /\ Cardinality(gr_seen) >= 2

\* C7: the weld tree stays acyclic: after any sequence of Brick.update
\* calls of the tick loop and removals of bricks from the list, following
\* welded_to from any brick never revisits a brick.
C7_WeldTreeAcyclic == \A b \in Bricks : NoRevisit(welded_to, b, {})

\* a brick was removed, an update ran after it, and a chain of two welds
\* exists
C7_Witness ==
    /\ removals > 0
    /\ upd # NoCall
    /\ \E b \in Bricks :
          /\ welded_to[b] # NoBrick
          /\ welded_to[welded_to[b]] # NoBrick

Vel(b) == VSub(bpos[b], bprev[b])

\* the contacts of the latest update that met the snap conditions
SnappedContacts ==
    IF upd = NoCall THEN {}
    ELSE {k \in 1..Len(upd.contacts) : upd.contacts[k].snapped}

\* C8 as stated: whenever brick B met the snap conditions against brick A
\* in its collision pass, after the pass B.welded_to is A, B is in
\* A.welded_children and B's velocity equals A's.
C8_SnapWeldAsStated ==
    \A k \in SnappedContacts :
        LET B == upd.brick
            A == upd.contacts[k].other
        IN  /\ welded_to[B] = A
            /\ InList(welded_children[A], B)
            /\ Vel(B) = Vel(A)

\* C8 amended: the snap conditions weld B to A for the rest of the pass
\* when A is the last brick of the pass that B overlaps; in every pass the
\* parent of B afterwards is the last brick it met the snap conditions
\* against, and B is in that brick's welded_children only.
C8_SnapWeldLastContact ==
    /\ \A k \in SnappedContacts :
          LET B == upd.brick
              A == upd.contacts[k].other
          IN  k = Len(upd.contacts) =>
                  /\ welded_to[B] = A
                  /\ InList(welded_children[A], B)
                  /\ Vel(B) = Vel(A)
    /\ SnappedContacts # {} =>
          LET B    == upd.brick
              last == CHOOSE k \in SnappedContacts :
                          \A j \in SnappedContacts : j <= k
              A    == upd.contacts[last].other
          IN  /\ welded_to[B] = A
              /\ InList(welded_children[A], B)
              /\ \A o \in Bricks \ {A} : ~InList(welded_children[o], B)

\* brick 2, unwelded before the pass, has overlapped brick 1 only and met
\* the snap conditions
C8_Witness ==
    /\ upd # NoCall
    /\ upd.brick = 2
    /\ upd.parent = NoBrick
    /\ Len(upd.contacts) = 1
    /\ upd.contacts[1].other = 1
    /\ upd.contacts[1].snapped
    /\ welded_to[2] = 1

\* C9: after Brick.update on a brick whose parent is in other_bricks, the
\* brick's position is parent.pos + welded_offset and its velocity equals
\* the parent's velocity (gravity and integration are not applied).
C9_WeldedChildSkipsPhysics ==
    (upd # NoCall /\ upd.parent # NoBrick) =>
        /\ bpos[upd.brick] = VAdd(bpos[upd.parent], upd.offset)
        /\ Vel(upd.brick) = Vel(upd.parent)

\* C10 as stated: after Brick.update on a brick whose parent is not in
\* other_bricks, the brick's welded_to is None and the brick is not in the
\* former parent's welded_children.
C10_StaleParentDetached ==
    (upd # NoCall /\ upd.stale # NoBrick) =>
        /\ welded_to[upd.brick] = NoBrick
        /\ ~InList(welded_children[upd.stale], upd.brick)

\* C10 amended: after that update the brick is no longer welded to the
\* former parent nor listed in its welded_children; its welded_to is None
\* unless the collision pass of the same update snap-welded it to a brick
\* of the list.
C10_StaleParentReleased ==
    (upd # NoCall /\ upd.stale # NoBrick) =>
        /\ welded_to[upd.brick] # upd.stale
        /\ ~InList(welded_children[upd.stale], upd.brick)
        /\ \/ welded_to[upd.brick] = NoBrick
           \/ /\ InList(bricks, welded_to[upd.brick])
              /\ \E k \in SnappedContacts :
                    upd.contacts[k].other = welded_to[upd.brick]

\* a brick whose parent was removed has been updated and is left unwelded
C10_Witness ==
    /\ upd # NoCall
    /\ upd.stale # NoBrick
    /\ ~InList(bricks, upd.stale)
    /\ welded_to[upd.brick] = NoBrick

\* the iterations of the collision loop of the latest update
Steps == IF upd = NoCall THEN {} ELSE {upd.steps[k] : k \in 1..Len(upd.steps)}

\* C11: in Brick.update, for every other brick with the same get_root() the
\* brick-vs-brick step changes neither brick's pos or prev and creates no
\* weld, whatever their overlap.
C11_GroupedNeverCollide ==
    \A st \in Steps : st.sameRoot => ~st.moved /\ ~st.rewelded /\ ~st.snapped

\* the loop has met an overlapping brick of the same weld group
C11_Witness == \E st \in Steps : st.sameRoot /\ st.overlap

OthersUntouched(n) ==
    \A m \in Npcs \ {n} :
        /\ rider_stand[m] = lastCall.before.stand[m]
        /\ mounted_bike[m] = lastCall.before.bike[m]
        /\ mounted_car[m] = lastCall.before.car[m]
        /\ seated[m] = lastCall.before.seat[m]

BackRef(v, n) == IF v = Bike THEN mounted_bike[n] ELSE mounted_car[n]

\* C13: mount(npc) sets rider to npc, npc.stand_enabled to False and the
\* back-reference mounted_bike / mounted_car to the vehicle; unmount() sets
\* rider to None, the former rider's stand_enabled to True and clears the
\* back-reference; unmount() with no rider changes no NPC.
C13_MountUnmount ==
    lastCall # NoCall =>
        LET v == lastCall.vehicle
            n == lastCall.npc
        IN  /\ lastCall.op = "mount" =>
                  /\ rider[v] = n
                  /\ rider_stand[n] = FALSE
                  /\ BackRef(v, n) = v
            /\ (lastCall.op = "unmount" /\ n # NoNpc) =>
                  /\ rider[v] = NoNpc
                  /\ rider_stand[n] = TRUE
                  /\ BackRef(v, n) = NoVehicle
            /\ (lastCall.op = "unmount" /\ n = NoNpc) =>
                  /\ rider[v] = NoNpc
                  /\ RiderFields = lastCall.before

\* an NPC has mounted the car and left it again
C13_Witness ==
    /\ lastCall # NoCall
    /\ lastCall.op = "unmount"
    /\ lastCall.vehicle = Car
    /\ lastCall.npc # NoNpc
    /\ seated[lastCall.npc] = Car

\* C14: when the update of one brick of the list fails during a tick (a
\* brick of mass 0 reaching the collision divisions), no exception leaves
\* MakersGun.update and, once the brick loop of the tick is over, every
\* brick of the list has been updated.
C14_FailureIsolated ==
    /\ ~crashed
    /\ tick_pc # "bricks" => tickLog = tickStart

\* C15: between the start and the end of one MakersGun.update call the
\* membership of the active brick list does not change.
C15_RemovalAtTickBoundary == bricks = tickStart

\* the bricks reached from the bricks of set through welded_children
RECURSIVE DescendantsFrom(_)
DescendantsFrom(set) ==
    LET more == set \cup {c \in Bricks :
                             \E p \in set : InList(welded_children[p], c)}
    IN  IF more = set THEN set ELSE DescendantsFrom(more)

Descendants(root) == DescendantsFrom({root}) \ {root}

\* C20: after the drag step of a tick in which a group is dragged, the
\* traversal has ended, it visited every descendant of the dragged root
\* exactly once and nothing else, and every descendant is at its parent's
\* position plus its welded_offset and has the root's velocity.
C20_GroupDrag ==
    dragLog # NoCall =>
        LET root     == dragLog.root
            visited  == dragLog.visited
            root_vel == VSub(bpos[root], bprev[root])
        IN  /\ ~dragLog.looping
            /\ \A k \in 1..Len(visited) : visited[k] \in Descendants(root)
            /\ \A d \in Descendants(root) :
                  /\ Cardinality({k \in 1..Len(visited) : visited[k] = d}) = 1
                  /\ \A p \in Bricks :
                        InList(welded_children[p], d) =>
                            bpos[d] = VAdd(bpos[p], welded_offset[d])
                  /\ VSub(bpos[d], bprev[d]) = root_vel

\* a chain of two welds is dragged to another place
C20_Witness ==
    /\ dragLog # NoCall
    /\ bpos[dragLog.root] # bprev[dragLog.root]
    /\ \E d \in Descendants(dragLog.root) :
          welded_to[d] \in Descendants(dragLog.root)

\* the iterations of the latest update that reached the collision
\* response: two bricks of different groups closer than min_dist, no
\* exception
Contacts == {st \in Steps : st.contact}

\* C18: in a contact of the brick-vs-brick pass the brick is welded to the
\* other one exactly when the relative speed after the restitution impulse
\* is below 120, normal.y < -0.7 and the horizontal separation is below
\* 0.35 * (sizeA + sizeB); when one of the three fails, welded_to and
\* welded_children are unchanged.
C18_SnapRuleAsStated ==
    \A st \in Contacts :
        /\ st.snapped <=> (st.slowPost /\ st.vertical /\ st.horiz)
        /\ ~(st.slowPost /\ st.vertical /\ st.horiz) => ~st.rewelded

\* how often brick c is listed in welded_children of p
TimesListed(p, c) ==
    Cardinality({k \in 1..Len(welded_children[p]) : welded_children[p][k] = c})

\* C19: after any sequence of add_weld and remove_weld calls a brick c is
\* in p.welded_children exactly when c.welded_to is p, it is listed there
\* at most once, and it is in no other brick's welded_children.
C19_WeldBookkeeping ==
    \A c \in Bricks : \A p \in Bricks :
        /\ InList(welded_children[p], c) <=> welded_to[c] = p
        /\ TimesListed(p, c) <= 1
        /\ welded_to[c] = p =>
              \A q \in Bricks \ {p} : ~InList(welded_children[q], c)

\* a brick welded to one parent has just been welded to another parent
\* that already had a child
C19_Witness ==
    /\ upd # NoCall
    /\ upd.call = "add_weld"
    /\ upd.before \notin {NoBrick, upd.parent}
    /\ Len(welded_children[upd.parent]) >= 2

\* the particle rests on the floor: y = floorY - radius, no vertical velocity
AtRest(p) ==
    /\ p.pos[2] = FloorY - fl_env.radius
    /\ p.pos[2] = p.prev[2]

\* C16: floor collision leaves a particle at y = floorY - radius with zero
\* vertical velocity unchanged, and applying it twice to any particle
\* gives the same pos and prev as applying it once.
C16_FloorClampIdempotent ==
    /\ Len(fl_log) >= 2 /\ AtRest(fl_log[1]) => fl_log[2] = fl_log[1]
    /\ Len(fl_log) >= 3 => fl_log[3] = fl_log[2]

\* a particle that was below the resting height and moving sideways has
\* been through floor collision twice
C16_Witness ==
    /\ Len(fl_log) >= 3
    /\ fl_log[1].pos[2] > FloorY - fl_env.radius
    /\ fl_log[1].pos[1] # fl_log[1].prev[1]
    /\ fl_log[2] # fl_log[1]

\* |distance - rest| after k passes
ConstrError(k) == Abs(cn_log[k + 1] - RestLength * CU)

\* C17: each of the first 5 relaxation passes leaves |distance - 50| no
\* larger than it was before the pass, and the distance is never below 50
\* by more than the distance the pass has just covered.
C17_ConstraintConverges ==
    \A k \in 1..(Len(cn_log) - 1) :
        k <= 5 =>
            /\ ConstrError(k) <= ConstrError(k - 1)
            /\ RestLength * CU - cn_log[k + 1] <= Abs(cn_log[k] - cn_log[k + 1])

\* five passes are done and the distance has come closer to 50
C17_Witness ==
    /\ cn_pass >= 5
    /\ ConstrError(0) > 0
    /\ ConstrError(5) < ConstrError(0)

\* C24: a tick of the driver loop without drive input moves drive_vel
\* toward 0 by the decay rate times dt, stopping at exactly 0 and never
\* crossing sign.
C24_DriveDecay ==
    (loop_in # NoCall /\ loop_in.vx = 0) =>
        LET v    == driven
            step == drive_decay(v) * loop_in.dt
        IN  /\ drive_before > 0 => drive_vel[v] = Max(drive_before - step, 0)
            /\ drive_before < 0 => drive_vel[v] = -Max(-drive_before - step, 0)
            /\ drive_before = 0 => drive_vel[v] = 0

\* C28: drive_vel stays within -drive_max .. drive_max after any sequence
\* of drive(vx, dt) calls with inputs of either sign or none.
C28_DriveVelBounded ==
    \A v \in Vehicles :
        /\ -drive_max(v) <= drive_vel[v]
        /\ drive_vel[v] <= drive_max(v)

\* reverse input after forward input has brought drive_vel to -drive_max
C28_Witness ==
    /\ driven # NoVehicle
    /\ ~rampOnly
    /\ drive_before > -drive_max(driven)
    /\ drive_vel[driven] = -drive_max(driven)

\* C29: an NPC carries a back-reference to vehicle v exactly when v.rider is
\* that NPC; in particular a mount on an occupied vehicle leaves neither a
\* stale back-reference nor a disabled stand flag on the replaced rider.
C29_BackReference ==
    /\ \A v \in Vehicles, n \in Npcs : (rider[v] = n) <=> (BackRef(v, n) = v)
    /\ \A n \in Npcs :
          (\A v \in Vehicles : rider[v] # n) => rider_stand[n]

ConstraintSet(cs) == {cs[k] : k \in 1..Len(cs)}

\* C22: through apply_bullet_hit and NPC.update no constraint has an
\* endpoint in cut_particles, cut_particles only grows and the constraint
\* list only shrinks.
C22_CutConstraintsGone ==
    [][/\ \A k \in 1..Len(constraints') :
             /\ constraints'[k][1] \notin cut_particles'
             /\ constraints'[k][2] \notin cut_particles'
       /\ cut_particles \subseteq cut_particles'
       /\ ConstraintSet(constraints') \subseteq ConstraintSet(constraints)
       /\ Len(constraints') <= Len(constraints)]_vars

\* two different particles were cut, their constraints are gone, and
\* updates have run since the last hit
C22_Witness ==
    /\ cut_particles = {4, 7}
    /\ Len(constraints) = 6
    /\ ticksAfterHit > 0

\* C26: whenever an NPC.update call ends with hp <= 0, stand_enabled is
\* False, also after the bleed timer has expired and after an unmount or a
\* possession has set stand_enabled back to True.
C26_DeadNeverStands ==
    [][(ticksAfterHit' = ticksAfterHit + 1 /\ hp' <= 0)
          => ~stand_enabled']_vars

\* C27: the id weld_effect gives a new group is not already a key of
\* weld_groups, so creating a group never replaces the member set of an
\* existing group, also after merges have deleted group ids.
C27_FreshGroupIds ==
    \A k \in 1..Len(createLog) :
        createLog[k].id \notin GroupIds(createLog[k].groupsBefore)

\* every particle of t has pos shifted by d from before to after
MovedBy(L, t, d) ==
    \A k \in 1..Len(L.before[t]) :
        L.after[t][k].pos = VAdd(L.before[t][k].pos, d)

\* the rule of C21 for one joint of the log, as a net displacement
JointRule(L) ==
    LET j == L.joint
        c == VSub(VAdd(get_pos(L.before, j.a, j.a_attach), j.offset),
                  get_pos(L.before, j.b, j.b_attach))
    IN  IF IsNpc(j.a) /\ ~IsNpc(j.b)
        THEN L.after[j.a] = L.before[j.a] /\ MovedBy(L, j.b, c)
        ELSE IF IsNpc(j.b) /\ ~IsNpc(j.a)
        THEN L.after[j.b] = L.before[j.b] /\ MovedBy(L, j.a, VNeg(c))
        ELSE MovedBy(L, j.a, VNeg(VHalf(c))) /\ MovedBy(L, j.b, VHalf(c))

\* C21 as stated: with correction = (posA + offset) - posB, a joint with
\* exactly one NPC end leaves the NPC's pos and prev alone and moves the
\* other end by the full correction; otherwise a is moved by -correction/2
\* and b by +correction/2.
C21_JointRuleAsStated ==
    \A k \in 1..Len(jn_log) : JointRule(jn_log[k])

\* C21, amended: the rule holds for joints between two different objects; a
\* joint between two particles of one NPC moves that NPC by -correction/2
\* and then by +correction/2, which leaves every pos where it was.
C21_JointRule ==
    \A k \in 1..Len(jn_log) :
        LET L == jn_log[k] IN
        IF L.joint.a # L.joint.b THEN JointRule(L)
        ELSE \A n \in 1..Len(L.before[L.joint.a]) :
                L.after[L.joint.a][n].pos = L.before[L.joint.a][n].pos

\* a joint from an NPC particle to a brick moved the brick by a non-zero
\* correction, and a joint between two bricks split one
C21_Witness ==
    /\ Len(jn_log) = 2
    /\ IsNpc(jn_log[1].joint.a) /\ ~IsNpc(jn_log[1].joint.b)
    /\ jn_log[1].after # jn_log[1].before
    /\ ~IsNpc(jn_log[2].joint.a) /\ ~IsNpc(jn_log[2].joint.b)
    /\ jn_log[2].after[jn_log[2].joint.a] # jn_log[2].before[jn_log[2].joint.a]
    /\ jn_log[1].before[1][1].prev # jn_log[1].before[1][1].pos

\* the particles C23 names: torso, head, arms, legs
PoseParticles == {2, 0, 5, 6, 7, 8}

\* C23: after every update of a rig with a rider, Bike and Car alike, the
\* rider's stand_enabled is False and torso, head, both arms and both legs
\* have been overwritten with a pose position and prev = pos.
C23_RiderRelocked ==
    ps_log # <<>> =>
        /\ ~ps_stand
        /\ PoseParticles \subseteq ps_log.written
        /\ \A i \in PoseParticles : ps_rider[i].prev = ps_rider[i].pos

\* the point origin + t * direction is in the box (t = <<n, d>>, d > 0)
OnBox(in, t) ==
    \A ax \in {1, 2} :
        LET p == in.origin[ax] * t[2] + in.direction[ax] * t[1]
        IN  /\ (in.center[ax] - in.half) * t[2] <= p
            /\ p <= (in.center[ax] + in.half) * t[2]

\* the parameters at which the ray can enter or leave the box or its range
RayCandidates(in) ==
    {<<0, 1>>, <<in.max_dist, 1>>}
        \cup {Rat(in.center[ax] + sg * in.half - in.origin[ax],
                  in.direction[ax]) :
                ax \in {a \in {1, 2} : in.direction[a] # 0}, sg \in {-1, 1}}

\* the ray meets the box for some 0 <= t <= max_dist
RayMeets(in) ==
    \E t \in RayCandidates(in) :
        /\ RLe(<<0, 1>>, t) /\ RLe(t, <<in.max_dist, 1>>)
        /\ OnBox(in, t)

\* C25: raycast_aabb reports a hit iff origin + t * direction meets the box
\* for some 0 <= t <= max_dist; on a hit 0 <= t <= max_dist and the hit
\* position lies on the box; on a miss it returns (False, None, None, None).
C25_RaycastExact ==
    rc_out # <<>> =>
        /\ rc_out.hit <=> RayMeets(rc_in)
        /\ rc_out.hit =>
              /\ RLe(<<0, 1>>, rc_out.t)
              /\ RLe(rc_out.t, <<rc_in.max_dist, 1>>)
              /\ OnBox(rc_in, rc_out.t)
        /\ ~rc_out.hit => rc_out = RayMiss

\* C30: at the end of every NPC.update with a floor, every particle has
\* pos.y <= floorY - size / 2, including the tick in which the NPC bleeds
\* to hp <= 0 and drop_dead is applied.
C30_AboveFloorAfterUpdate ==
    bd_log # <<>> => \A i \in BodyParticles : bd_p[i].y <= GroundY

====
